---------------------------- MODULE Spec2Model ----------------------------
(***************************************************************************)
(* A model of the tpm-mmio driver core: Tpm::ReadPublic / SubmitCommand    *)
(* (tpm.hpp), the CRB transport (crb.hpp) and the TIS/FIFO transport       *)
(* (tis.hpp), over mmio::Read / mmio::Write (mmio.hpp).                    *)
(*                                                                         *)
(* The device is the environment: every register read returns any value of *)
(* a small set, and the response the device presents is drawn in Init.     *)
(* Each caller (a thread inside ReadPublic) owns a record of the locals of *)
(* the call; the device and the cached discovery result are shared.        *)
(*                                                                         *)
(* NTSTATUS is the signed 32-bit LONG of the Windows kernel headers        *)
(* (main.cpp:10, #include <ntddk.h>); the STATUS_ values and the NT_ERROR  *)
(* macro below are those of ntstatus.h / ntdef.h.                          *)
(***************************************************************************)
EXTENDS Integers, Sequences, FiniteSets, TLC

VARIABLES
    th,               \* thread -> locals of its ReadPublic/SubmitCommand call
    cachedInterface,  \* TpmPtp::cachedInterface
    idleByPassState,  \* TpmPtp::idleByPassState
    tpmBaseAddress,   \* Tpm::tpmBaseAddress, as [hi, lo] 32-bit halves
    resp,             \* device: the bytes the device presents as its response
    fifoRd,           \* device: number of bytes popped from DataFifo
    mapBudget,        \* platform: MmMapIoSpace refusals still to come
    ptp,              \* device: the registers discovery reads; GetPtpInterface's result
    wire              \* device: the fields the response was built from

config == <<cachedInterface, idleByPassState, tpmBaseAddress, ptp, wire>>
vars == <<th, config, resp, fifoRd, mapBudget>>

----------------------------------------------------------------------------
(* Bounds of the model.                                                    *)

\* Stand-ins (microseconds) for the hardware-tuned timeouts of defs.hpp; a
\* wait polls ceil(timeOut / 30) times.
PTP_TIMEOUT_B == 60
PTP_TIMEOUT_C == 60
PTP_TIMEOUT_MAX == 90
TIS_TIMEOUT_B == 60
TIS_TIMEOUT_C == 60
TIS_TIMEOUT_D == 60
TIS_TIMEOUT_MAX == 90
\* Mapping refusals the platform may produce during one behaviour (SpecMapFail).
MaxMapFail == 1

\* Capacities (*sizeOut on entry) a caller passes.
Capacities == {8, 12}
\* param_size values a response header may declare.
ParamSizes == {6, 10, 12, 14}
\* Length of the modelled output buffer (the header is always drained into it).
BufLen == 16

----------------------------------------------------------------------------
(* Platform and protocol constants.                                        *)

STATUS_SUCCESS == 0
STATUS_TIMEOUT == 258
STATUS_DEVICE_BUSY == -2147483631
STATUS_UNSUCCESSFUL == -1073741823
STATUS_INVALID_PARAMETER == -1073741811
STATUS_BUFFER_TOO_SMALL == -1073741789
STATUS_DEVICE_NOT_CONNECTED == -1073741667
STATUS_NOT_SUPPORTED == -1073741637

\* ntdef.h: NT_ERROR(Status) ((((ULONG)(Status)) >> 30) == 3): the two top
\* bits are set, i.e. the signed value lies in [-2^30, -1].
NT_ERROR(status) == status < 0 /\ status >= -1073741824

RETRY_CNT_MAX == 3
PollStep == 30
RespHeaderSize == 10

PTP_CRB_CONTROL_AREA_STATUS_TPM_IDLE == 2
PTP_CRB_CONTROL_AREA_REQUEST_COMMAND_READY == 1
PTP_CRB_CONTROL_AREA_REQUEST_GO_IDLE == 2
PTP_CRB_CONTROL_CANCEL == 1
PTP_CRB_CONTROL_START == 1
CrbDataBufferSize == 3968

TIS_PC_VALID == 128
TIS_PC_STS_READY == 64
TIS_PC_STS_GO == 32
TIS_PC_STS_DATA == 16
TIS_PC_STS_EXPECT == 8
TIS_PC_STS_CANCEL == 16777216

TPM_ST_RSP_COMMAND == 196
TPM_ST_NO_SESSIONS == 32769
TPM_CC_ReadPublic == 371
TPM_RC_SUCCESS == 0
TPM_RC_SEQUENCE == 259
TPM_RC_FAILURE == 257

\* Algorithm identifiers of the TPM 2.0 registry.
TPM_ALG_RSA == 1
TPM_ALG_HMAC == 5
TPM_ALG_AES == 6
TPM_ALG_MGF1 == 7
TPM_ALG_KEYEDHASH == 8
TPM_ALG_XOR == 10
TPM_ALG_NULL == 16
TPM_ALG_SM4 == 19
TPM_ALG_RSASSA == 20
TPM_ALG_RSAES == 21
TPM_ALG_RSAPSS == 22
TPM_ALG_OAEP == 23
TPM_ALG_ECDSA == 24
TPM_ALG_ECDH == 25
TPM_ALG_ECDAA == 26
TPM_ALG_ECSCHNORR == 28
TPM_ALG_KDF1_SP800_56a == 32
TPM_ALG_KDF2 == 33
TPM_ALG_KDF1_SP800_108 == 34
TPM_ALG_ECC == 35
TPM_ALG_SYMCIPHER == 37

\* sizeof(TPMT_PUBLIC), sizeof(TPMU_NAME), sizeof(TPMU_HA) of the packed TPM
\* 2.0 structures, and the key-size maxima.
sizeof_TPMT_PUBLIC == 606
sizeof_TPMU_NAME == 66
sizeof_TPMU_HA == 64
MAX_RSA_KEY_BYTES == 512
MAX_ECC_KEY_BYTES == 128
\* offsetof(TPM2_READ_PUBLIC_RESPONSE, OutPublic) and of
\* OutPublic.publicArea.authPolicy.
OutPublicOffset == 10
AuthPolicyOffset == 20

----------------------------------------------------------------------------
(* Bytes and integers.                                                     *)

RECURSIVE BitAnd(_, _)
BitAnd(a, b) ==
    IF a = 0 \/ b = 0 THEN 0
    ELSE (IF (a % 2) = 1 /\ (b % 2) = 1 THEN 1 ELSE 0) + (2 * BitAnd(a \div 2, b \div 2))

\* Byte k (0 = least significant) of a value.
ByteOf(v, k) == (v \div (256 ^ k)) % 256

\* The host (little-endian) memory image of a 16/32-bit value.
Mem16(v) == <<ByteOf(v, 0), ByteOf(v, 1)>>
Mem32(v) == <<ByteOf(v, 0), ByteOf(v, 1), ByteOf(v, 2), ByteOf(v, 3)>>
\* memcpy of a memory image into a uint16_t / uint32_t local.  A uint32_t of
\* 2^31 or more is held as 2^31 - 1: such values are only ever compared with
\* sizes and codes below 2^16.
Load16(m) == m[1] + (256 * m[2])
Load32(m) ==
    IF m[4] >= 128 THEN 2147483647
    ELSE m[1] + (256 * m[2]) + (65536 * m[3]) + (16777216 * m[4])
\* Fault: _byteswap_ushort leaves the value as it is.
byteswap_ushort_Identity(v) == v

\* _byteswap_ushort / _byteswap_ulong on values.
byteswap_ushort(v) == (ByteOf(v, 0) * 256) + ByteOf(v, 1)
byteswap_ulong(v) ==
    (ByteOf(v, 0) * 16777216) + (ByteOf(v, 1) * 65536)
      + (ByteOf(v, 2) * 256) + ByteOf(v, 3)

\* Handle 0x81010001 as its host memory image (it exceeds TLC's integers).
ObjectHandleMem == <<1, 0, 1, 129>>
Reverse4(m) == <<m[4], m[3], m[2], m[1]>>

\* _byteswap_ulong on the memory image of a uint32_t: through the value where
\* the value and its swap fit TLC's integers, on the bytes otherwise.
byteswap_ulong_mem(m) ==
    IF m[1] < 128 /\ m[4] < 128 THEN Mem32(byteswap_ulong(Load32(m))) ELSE Reverse4(m)

\* Fault: the handle is stored without _byteswap_ulong.
ReadPublicCommand_HostOrder(objectHandle) ==
    Mem16(byteswap_ushort(TPM_ST_NO_SESSIONS)) \o Mem32(byteswap_ulong(14))
      \o Mem32(byteswap_ulong(TPM_CC_ReadPublic)) \o objectHandle

\* TPM2_READ_PUBLIC_COMMAND as ReadPublic lays it out in memory, for a handle
\* given as its host memory image.
ReadPublicCommand(objectHandle) ==
    Mem16(byteswap_ushort(TPM_ST_NO_SESSIONS)) \o Mem32(byteswap_ulong(14))
      \o Mem32(byteswap_ulong(TPM_CC_ReadPublic)) \o Reverse4(objectHandle)

SendBuffer == ReadPublicCommand(ObjectHandleMem)

\* A response as the device presents it: big-endian header, then payload.
Payload(n) == [k \in 1..n |-> 170]
Response(tag, size, rc) ==
    <<tag \div 256, tag % 256>>
      \o <<0, 0, size \div 256, size % 256>>
      \o <<0, 0, rc \div 256, rc % 256>>
      \o Payload(IF size > RespHeaderSize THEN size - RespHeaderSize ELSE 0)

Responses ==
    { Response(tag, size, rc) :
        tag \in {TPM_ST_NO_SESSIONS, TPM_ST_RSP_COMMAND},
        size \in ParamSizes,
        rc \in {TPM_RC_SUCCESS, TPM_RC_SEQUENCE, TPM_RC_FAILURE} }

\* The byte the device returns for DataBuffer[i] / the k-th DataFifo pop
\* (an empty FIFO reads 0xFF).
DeviceByte(i) == IF i < Len(resp) THEN resp[i + 1] ELSE 255

----------------------------------------------------------------------------
(* mmio.hpp                                                                *)

NoWrite == [reg |-> "none", off |-> 0, val |-> 0, hi |-> 0, len |-> 0]

MapOutcomes == IF mapBudget > 0 THEN {TRUE, FALSE} ELSE {TRUE}

\* The mappings a caller holds after MmMapIoSpace returned an address.
MmMapIoSpace(mapped) == mapped + 1

\* Fault: the mapping is left in place.
MmUnmapIoSpace_Skip(mapped) == mapped

\* The mappings a caller holds after MmUnmapIoSpace.
MmUnmapIoSpace(mapped) == mapped - 1

\* The mapping of one mmio::Write / mmio::Read: when MmMapIoSpace succeeds
\* the access is made under the mapping, which is unmapped before the return;
\* when it fails nothing was mapped.  maxMapped is the most mappings held at
\* any point so far.
MapAccess(s, ok) ==
    IF ok
    THEN [s EXCEPT !.maxMapped = IF MmMapIoSpace(s.mapped) > @ THEN MmMapIoSpace(s.mapped) ELSE @,
                   !.mapped = MmUnmapIoSpace(MmMapIoSpace(@))]
    ELSE s

\* mmio::Write: when MmMapIoSpace succeeds the value reaches the register.
\* A write is logged as the register, the byte offset inside it (DataBuffer),
\* the low 32 bits written, the high 32 bits (8-byte writes) and the width.
MmioWrite64(s, reg, off, val, hi, len, ok) ==
    IF ok /\ len \in {1, 2, 4, 8}
    THEN [MapAccess(s, ok)
             EXCEPT !.lastWrite = [reg |-> reg, off |-> off, val |-> val, hi |-> hi, len |-> len],
                    !.wrote = @ \cup {<<reg, val, len>>},
                    !.log = Append(@, <<reg, off, val>>)]
    ELSE MapAccess(s, ok)
MmioWrite(s, reg, val, len, ok) == MmioWrite64(s, reg, 0, val, 0, len, ok)

\* mmio::Read: when MmMapIoSpace fails *pData keeps its old value.
MmioRead(old, v, ok) == IF ok THEN v ELSE old

Upd(t, r) == th' = [th EXCEPT ![t] = r]
Spend(fails) == mapBudget' = mapBudget - fails
Cost(ok) == IF ok THEN 0 ELSE 1

----------------------------------------------------------------------------
(* The locals of one call.                                                 *)

\* A length-prefixed buffer of the outputs: `size` and the bytes copied.
NoBuffer == [size |-> 0, buffer |-> <<>>]

\* *outPublic, *name and *qualifiedName as the caller passes them (zeroed).
\* `raw` is the image memcpy left in *outPublic; members the decoder does not
\* assign keep it.  `parameters` maps the byte offset of a member of the
\* union TPMU_PUBLIC_PARMS to its 16-bit value; `unique.x` is the first
\* buffer of TPMU_PUBLIC_ID (keyedHash, sym, rsa, ecc.x), `unique.y` is ecc.y.
NoOutput ==
    [ raw |-> <<>>,
      size |-> 0,
      type |-> 0,
      nameAlg |-> 0,
      objectAttributes |-> <<0, 0, 0, 0>>,
      authPolicy |-> NoBuffer,
      parameters |-> [o \in {} |-> 0],
      unique |-> [x |-> NoBuffer, y |-> NoBuffer],
      name |-> NoBuffer,
      qualifiedName |-> NoBuffer ]

\* The decoder's cursor and what it did, for the properties only: where
\* `buffer` ended, the copies made as <<destination, bytes>>, where the RSA
\* exponent and the first unique size were read.
NoDecode == [buf |-> 0, copies |-> {}, expAt |-> 0, uniqueAt |-> 0]

\* Results of the byte-order helpers on a 16-bit value and a 32-bit image.
NoCodec == [enc16 |-> <<>>, dec16 |-> 0, enc32 |-> <<>>, dec32 |-> <<>>]

NewCall(cap) ==
    [ pc |-> "idle",
      status |-> STATUS_UNSUCCESSFUL,
      rpStatus |-> STATUS_UNSUCCESSFUL,
      retryCnt |-> 0,
      waitTime |-> 0,
      i |-> 0,
      burstCount |-> 0,
      bufferOut |-> [k \in 0..(BufLen - 1) |-> 0],
      cap |-> cap,
      sizeOut |-> cap,
      tpmOutSize |-> 0,
      objectHandle |-> ObjectHandleMem,
      sendBuffer |-> [k \in 1..Len(SendBuffer) |-> 0],
      out |-> NoOutput,
      dec |-> NoDecode,
      codec |-> NoCodec,
      mapped |-> 0,
      maxMapped |-> 0,
      credit |-> 0,
      \* history, for the properties only
      lastWrite |-> NoWrite,
      wrote |-> {},
      log |-> <<>>,
      timedOut |-> {},
      waitFails |-> 0,
      reentries |-> 0,
      nCancel |-> 0,
      completed |-> FALSE,
      devRead |-> {},
      earlyRead |-> FALSE ]

\* The callers that may exist; one that never calls stays "absent".
ThreadIds == {1, 2}
Absent == [NewCall(0) EXCEPT !.pc = "absent"]

Interfaces == {"PtpInterfaceNull", "PtpInterfaceCrb", "PtpInterfaceFifo", "PtpInterfaceTis"}

\* What discovery (ptp.hpp) can leave cached: idleByPassState is set only
\* for CRB and is then a one-bit field; otherwise it keeps 0xFF.
Discovered ==
    { <<"PtpInterfaceCrb", 0>>, <<"PtpInterfaceCrb", 1>>, <<"PtpInterfaceFifo", 255>>,
      <<"PtpInterfaceTis", 255>>, <<"PtpInterfaceNull", 255>> }

\* Register bases acpi::GetTpm2PhysicalAddress may report (never 0); the low
\* half is kept below 2^31.
AcpiBases == { [hi |-> 0, lo |-> 2127822848] }

\* TpmPtp::tpmBaseAddress, the constant 0xfed40000 discovery probes at, as
\* [hi, lo] with the low half as a signed 32-bit value.  `base` of the
\* discovery record is the base GetPtpInterface used for its reads.
PtpBaseAddress == [hi |-> 0, lo |-> -19660800]

\* InterfaceId / InterfaceCapability as their bit-fields, and the byte at
\* the base; `status` is what GetPtpInterface returned ("none": not called).
PtpRegs(presence, type, version, capCRB, capFIFO, bypass, capVersion) ==
    [ presence |-> presence,
      InterfaceType |-> type,
      InterfaceVersion |-> version,
      CapCRB |-> capCRB,
      CapFIFO |-> capFIFO,
      CapCRBIdleBypass |-> bypass,
      CapabilityVersion |-> capVersion,
      status |-> "none",
      base |-> [hi |-> 0, lo |-> 0] ]

\* Discovery is over; the registers it read are not looked at again.
PtpAfterInit ==
    [PtpRegs(0, 0, 0, 0, 0, 0, 0) EXCEPT !.status = "true", !.base = PtpBaseAddress]

\* No structured response: the device answers with a bare header and filler.
NoWire == [type |-> "none"]

InitConfig ==
    /\ \E d \in Discovered : cachedInterface = d[1] /\ idleByPassState = d[2]
    /\ tpmBaseAddress \in AcpiBases
    /\ ptp = PtpAfterInit

InitDevice ==
    /\ resp \in Responses
    /\ wire = NoWire
    /\ fifoRd = 0

Init ==
    /\ InitConfig
    /\ InitDevice
    /\ mapBudget = 0
    /\ \E cap \in Capacities :
          th = [t \in ThreadIds |-> IF t = 1 THEN NewCall(cap) ELSE Absent]


----------------------------------------------------------------------------
(* ptp.hpp: TpmPtp::IsPtpAvailable, TpmPtp::GetPtpInterface.               *)

PTP_INTERFACE_IDENTIFIER_INTERFACE_TYPE_FIFO == 0
PTP_INTERFACE_IDENTIFIER_INTERFACE_TYPE_CRB == 1
PTP_INTERFACE_IDENTIFIER_INTERFACE_TYPE_TIS == 15
PTP_INTERFACE_IDENTIFIER_INTERFACE_VERSION_FIFO == 0
PTP_INTERFACE_IDENTIFIER_INTERFACE_VERSION_CRB == 1
INTERFACE_CAPABILITY_INTERFACE_VERSION_PTP == 3

\* Fault: the presence byte is not compared with 0xFF.
IsPtpAvailable_Always(data, ok) == ok

\* data starts as 0xFF and is overwritten by a mapped read.
IsPtpAvailable(data, ok) == MmioRead(255, data, ok) # 255

\* Fault: the FIFO rule without the test of InterfaceCapability.
PtpRules_NoCapVersion(start, r) ==
    LET crb == IF /\ r.InterfaceType = PTP_INTERFACE_IDENTIFIER_INTERFACE_TYPE_CRB
                  /\ r.InterfaceVersion = PTP_INTERFACE_IDENTIFIER_INTERFACE_VERSION_CRB
                  /\ r.CapCRB # 0
               THEN [kind |-> "PtpInterfaceCrb", bypass |-> r.CapCRBIdleBypass,
                     status |-> r.CapCRBIdleBypass # 255]
               ELSE start
        fifo == IF /\ r.InterfaceType = PTP_INTERFACE_IDENTIFIER_INTERFACE_TYPE_FIFO
                   /\ r.InterfaceVersion = PTP_INTERFACE_IDENTIFIER_INTERFACE_VERSION_FIFO
                   /\ r.CapFIFO # 0
                THEN [crb EXCEPT !.kind = "PtpInterfaceFifo", !.status = TRUE]
                ELSE crb
    IN  IF r.InterfaceType = PTP_INTERFACE_IDENTIFIER_INTERFACE_TYPE_TIS
        THEN [fifo EXCEPT !.kind = "PtpInterfaceTis", !.status = TRUE]
        ELSE fifo

\* The three tests of GetPtpInterface, each an `if` of its own, applied in
\* sequence to the cached fields and the local `status`.
PtpRules(start, r) ==
    LET crb == IF /\ r.InterfaceType = PTP_INTERFACE_IDENTIFIER_INTERFACE_TYPE_CRB
                  /\ r.InterfaceVersion = PTP_INTERFACE_IDENTIFIER_INTERFACE_VERSION_CRB
                  /\ r.CapCRB # 0
               THEN [kind |-> "PtpInterfaceCrb", bypass |-> r.CapCRBIdleBypass,
                     status |-> r.CapCRBIdleBypass # 255]
               ELSE start
        fifo == IF /\ r.InterfaceType = PTP_INTERFACE_IDENTIFIER_INTERFACE_TYPE_FIFO
                   /\ r.InterfaceVersion = PTP_INTERFACE_IDENTIFIER_INTERFACE_VERSION_FIFO
                   /\ r.CapFIFO # 0
                   /\ r.CapabilityVersion = INTERFACE_CAPABILITY_INTERFACE_VERSION_PTP
                THEN [crb EXCEPT !.kind = "PtpInterfaceFifo", !.status = TRUE]
                ELSE crb
    IN  IF r.InterfaceType = PTP_INTERFACE_IDENTIFIER_INTERFACE_TYPE_TIS
        THEN [fifo EXCEPT !.kind = "PtpInterfaceTis", !.status = TRUE]
        ELSE fifo

\* GetPtpInterface with the mapping outcomes of its three reads.
PtpDiscover(r, ok0, ok1, ok2) ==
    LET start == [kind |-> cachedInterface, bypass |-> idleByPassState, status |-> FALSE] IN
    IF IsPtpAvailable(r.presence, ok0) /\ ok1 /\ ok2 THEN PtpRules(start, r) ELSE start

\* Mappings refused among the reads that are reached.
PtpCost(r, ok0, ok1, ok2) ==
    IF ~ok0 THEN 1
    ELSE IF ~IsPtpAvailable(r.presence, ok0) THEN 0
    ELSE IF ~ok1 THEN 1
    ELSE Cost(ok2)

\* The caller's mappings after the reads of GetPtpInterface that are reached.
PtpMapped(s, r, ok0, ok1, ok2) ==
    IF ~IsPtpAvailable(r.presence, ok0) THEN MapAccess(s, ok0)
    ELSE IF ~ok1 THEN MapAccess(s, ok0)
    ELSE MapAccess(MapAccess(MapAccess(s, ok0), ok1), ok2)

\* Tpm::Init -> TpmPtp::Init -> GetPtpInterface.  ReadPublic can be called on
\* the object whatever Init returned.
GetPtpInterface(t) ==
    /\ th[t].pc = "init"
    /\ \E ok0, ok1, ok2 \in MapOutcomes :
        LET d == PtpDiscover(ptp, ok0, ok1, ok2) IN
        /\ PtpCost(ptp, ok0, ok1, ok2) <= mapBudget
        /\ cachedInterface' = d.kind
        /\ idleByPassState' = d.bypass
        /\ ptp' = [ptp EXCEPT !.status = IF d.status THEN "true" ELSE "false",
                              !.base = PtpBaseAddress]
        /\ Spend(PtpCost(ptp, ok0, ok1, ok2))
        /\ Upd(t, [PtpMapped(th[t], ptp, ok0, ok1, ok2) EXCEPT !.pc = "idle"])
    /\ UNCHANGED <<tpmBaseAddress, wire, resp, fifoRd>>

----------------------------------------------------------------------------
(* Polling helpers.                                                        *)

\* Values the device may show in a register.
RegValues(reg) ==
    CASE reg = "CrbControlStatus" -> {0, PTP_CRB_CONTROL_AREA_STATUS_TPM_IDLE}
      [] reg = "CrbControlRequest" -> {0, PTP_CRB_CONTROL_AREA_REQUEST_COMMAND_READY}
      [] reg = "CrbControlStart" -> {0, PTP_CRB_CONTROL_START}
      [] reg = "Status" ->
            {0, TIS_PC_STS_READY, TIS_PC_VALID, TIS_PC_VALID + TIS_PC_STS_EXPECT,
             TIS_PC_VALID + TIS_PC_STS_DATA}
      [] OTHER -> {0}

\* Fault: the bits that must be clear are not tested.
BitsMatch_NoClear(registerRead, bitSet, bitClear) ==
    BitAnd(registerRead, bitSet) = bitSet

\* The test of CrbWaitRegisterBits / TisWaitRegisterBits on a value read.
BitsMatch(registerRead, bitSet, bitClear) ==
    /\ BitAnd(registerRead, bitSet) = bitSet
    /\ BitAnd(registerRead, bitClear) = 0

\* The discovered interface is CRB.
OnCrbKind == cachedInterface = "PtpInterfaceCrb"

S01Waits == {"crb_s0_wait", "crb_s1_req_wait", "crb_s1_sts_wait"}
\* The waits whose success is the device signalling that the command is done.
CompletionWaits == {"crb_s3_wait", "crb_cancel_wait", "tis_go_wait", "tis_cancel_wait"}

\* The helper returns `st` to the call site whose continuation is `next`.
WaitReturn(s, st, next) ==
    [s EXCEPT !.status = st,
              !.pc = next,
              !.waitTime = 0,
              !.timedOut = IF st = STATUS_TIMEOUT THEN @ \cup {s.pc} ELSE @ \ {s.pc},
              !.completed = @ \/ (st = STATUS_SUCCESS /\ s.pc \in CompletionWaits),
              !.waitFails = IF st = STATUS_TIMEOUT /\ s.pc \in S01Waits THEN @ + 1 ELSE @]

\* One evaluation of the for loop of a WaitRegisterBits helper: the loop test,
\* then one mapped read of the register (value v, mapping outcome ok).
WaitRegisterBits(s, w, v, ok) ==
    IF ~(s.waitTime < w.timeOut)
    THEN WaitReturn(s, STATUS_TIMEOUT, w.next)
    ELSE IF ok /\ BitsMatch(v, w.bitSet, w.bitClear)
         THEN WaitReturn(MapAccess(s, ok), STATUS_SUCCESS, w.next)
         ELSE [MapAccess(s, ok) EXCEPT !.waitTime = @ + PollStep]

\* What a poll of the register yields, as <<value, mapping outcome>>: any
\* value with any outcome the platform allows, or the poll scripted in the
\* device record.
WaitShown(s, w) ==
    IF wire.type = "wait" /\ s.waitTime < w.timeOut
    THEN {wire.polls[(s.waitTime \div PollStep) + 1]}
    ELSE { <<v, ok>> : v \in RegValues(w.reg), ok \in MapOutcomes }

WaitAction(t, w) ==
    LET s == th[t] IN
    \E p \in WaitShown(s, w) :
        /\ Upd(t, WaitRegisterBits(s, w, p[1], p[2]))
        /\ Spend(IF s.waitTime < w.timeOut THEN Cost(p[2]) ELSE 0)
        /\ UNCHANGED <<config, resp, fifoRd>>

----------------------------------------------------------------------------
(* tpm.hpp: ReadPublic up to the call, and SubmitCommand.                  *)

sizeIn == Len(SendBuffer)

\* ReadPublic builds sendBuffer, zeroes recvBuffer and calls SubmitCommand.
ReadPublicCall(t) ==
    /\ th[t].pc = "idle"
    /\ Upd(t, [th[t] EXCEPT !.pc = "submit",
                           !.sendBuffer = ReadPublicCommand(th[t].objectHandle)])
    /\ UNCHANGED <<config, resp, fifoRd, mapBudget>>

SubmitCommand(t) ==
    LET s == th[t] IN
    /\ s.pc = "submit"
    /\ Upd(t, IF cachedInterface \in {"PtpInterfaceTis", "PtpInterfaceFifo"}
               THEN [s EXCEPT !.pc = "tis_prepare"]
               ELSE IF cachedInterface = "PtpInterfaceCrb"
               THEN [s EXCEPT !.pc = "crb_s0", !.status = STATUS_UNSUCCESSFUL, !.retryCnt = 0]
               ELSE IF cachedInterface = "PtpInterfaceNull"
               THEN [s EXCEPT !.pc = "returned", !.status = STATUS_DEVICE_NOT_CONNECTED]
               ELSE [s EXCEPT !.pc = "returned", !.status = STATUS_INVALID_PARAMETER])
    /\ UNCHANGED <<config, resp, fifoRd, mapBudget>>

----------------------------------------------------------------------------
(* crb.hpp: TpmCrb::CrbCommand.                                            *)

CrbWait(pc) ==
    CASE pc = "crb_s0_wait" ->
            [reg |-> "CrbControlStatus", bitSet |-> PTP_CRB_CONTROL_AREA_STATUS_TPM_IDLE,
             bitClear |-> 0, timeOut |-> PTP_TIMEOUT_C, next |-> "crb_s0_chk"]
      [] pc = "crb_s1_req_wait" ->
            [reg |-> "CrbControlRequest", bitSet |-> 0,
             bitClear |-> PTP_CRB_CONTROL_AREA_REQUEST_COMMAND_READY,
             timeOut |-> PTP_TIMEOUT_C, next |-> "crb_s1_req_chk"]
      [] pc = "crb_s1_sts_wait" ->
            [reg |-> "CrbControlStatus", bitSet |-> 0,
             bitClear |-> PTP_CRB_CONTROL_AREA_STATUS_TPM_IDLE,
             timeOut |-> PTP_TIMEOUT_C, next |-> "crb_s1_sts_chk"]
      [] pc = "crb_s3_wait" ->
            [reg |-> "CrbControlStart", bitSet |-> 0, bitClear |-> PTP_CRB_CONTROL_START,
             timeOut |-> PTP_TIMEOUT_MAX, next |-> "crb_s3_chk"]
      [] pc = "crb_cancel_wait" ->
            [reg |-> "CrbControlStart", bitSet |-> 0, bitClear |-> PTP_CRB_CONTROL_START,
             timeOut |-> PTP_TIMEOUT_B, next |-> "crb_cancel_chk"]

CrbWaitPcs == {"crb_s0_wait", "crb_s1_req_wait", "crb_s1_sts_wait", "crb_s3_wait", "crb_cancel_wait"}

CrbWaitRegisterBits(t) ==
    /\ th[t].pc \in CrbWaitPcs
    /\ WaitAction(t, CrbWait(th[t].pc))

\* STEP 0: with idleByPassState == 0, read CtrlStatus and wait for tpmIdle.
CrbEnforceIdle(t) ==
    LET s == th[t] IN
    /\ s.pc = "crb_s0"
    /\ IF idleByPassState = 0
       THEN \E v \in RegValues("CrbControlStatus"), ok \in MapOutcomes :
                /\ Upd(t, IF ok /\ BitAnd(v, PTP_CRB_CONTROL_AREA_STATUS_TPM_IDLE) = 0
                           THEN [MapAccess(s, ok) EXCEPT !.pc = "crb_s0_wait", !.waitTime = 0]
                           ELSE [MapAccess(s, ok) EXCEPT !.pc = "crb_s1"])
                /\ Spend(Cost(ok))
       ELSE Upd(t, [s EXCEPT !.pc = "crb_s1"]) /\ UNCHANGED mapBudget
    /\ UNCHANGED <<config, resp, fifoRd>>

\* STEP 1: write cmdReady, then the two waits.
CrbCommandReady(t) ==
    LET s == th[t] IN
    /\ s.pc = "crb_s1"
    /\ \E ok \in MapOutcomes :
        /\ Upd(t, [MmioWrite(s, "CrbControlRequest",
                             PTP_CRB_CONTROL_AREA_REQUEST_COMMAND_READY, 4, ok)
                     EXCEPT !.pc = "crb_s1_req_wait", !.waitTime = 0])
        /\ Spend(Cost(ok))
    /\ UNCHANGED <<config, resp, fifoRd>>

\* The retry policy after a failed S0/S1 wait (three copies in the source).
CrbRetry(s, ok) ==
    LET cnt == (s.retryCnt + 1) % 256 IN
    IF cnt < RETRY_CNT_MAX
    THEN [MmioWrite(s, "CrbControlRequest", PTP_CRB_CONTROL_AREA_REQUEST_GO_IDLE, 4, ok)
            EXCEPT !.retryCnt = cnt, !.pc = "crb_s0", !.reentries = @ + 1]
    ELSE [s EXCEPT !.retryCnt = cnt, !.status = STATUS_DEVICE_BUSY, !.pc = "crb_goidle"]

\* What CrbCommand does with the status a wait returned.
CrbAfterWait(s, ok) ==
    CASE s.pc = "crb_s0_chk" ->
            IF NT_ERROR(s.status) THEN CrbRetry(s, ok) ELSE [s EXCEPT !.pc = "crb_s1"]
      [] s.pc = "crb_s1_req_chk" ->
            IF NT_ERROR(s.status) THEN CrbRetry(s, ok)
            ELSE [s EXCEPT !.pc = "crb_s1_sts_wait", !.waitTime = 0]
      [] s.pc = "crb_s1_sts_chk" ->
            IF NT_ERROR(s.status) THEN CrbRetry(s, ok)
            ELSE [s EXCEPT !.pc = "crb_s2", !.i = 0]
      [] s.pc = "crb_s3_chk" ->
            IF NT_ERROR(s.status)
            THEN [MmioWrite(s, "CrbControlCancel", PTP_CRB_CONTROL_CANCEL, 4, ok)
                    EXCEPT !.pc = "crb_cancel_wait", !.waitTime = 0,
                           !.nCancel = IF ok THEN @ + 1 ELSE @]
            ELSE [s EXCEPT !.pc = "crb_s4_hdr", !.i = 0]
      [] s.pc = "crb_cancel_chk" ->
            LET c == MmioWrite(s, "CrbControlCancel", 0, 4, ok) IN
            IF NT_ERROR(s.status)
            THEN [c EXCEPT !.status = STATUS_DEVICE_BUSY, !.pc = "crb_goidle"]
            ELSE [c EXCEPT !.pc = "crb_s4_hdr", !.i = 0]

\* Whether CrbAfterWait issues an mmio::Write in this state.
CrbAfterWaitWrites(s) ==
    \/ s.pc = "crb_cancel_chk"
    \/ s.pc = "crb_s3_chk" /\ NT_ERROR(s.status)
    \/ /\ s.pc \in {"crb_s0_chk", "crb_s1_req_chk", "crb_s1_sts_chk"}
       /\ NT_ERROR(s.status)
       /\ (s.retryCnt + 1) % 256 < RETRY_CNT_MAX

CrbCheckStatus(t) ==
    LET s == th[t] IN
    /\ s.pc \in {"crb_s0_chk", "crb_s1_req_chk", "crb_s1_sts_chk", "crb_s3_chk", "crb_cancel_chk"}
    /\ \E ok \in (IF CrbAfterWaitWrites(s) THEN MapOutcomes ELSE {TRUE}) :
        /\ Upd(t, CrbAfterWait(s, ok))
        /\ Spend(Cost(ok))
    /\ UNCHANGED <<config, resp, fifoRd>>

\* STEP 2: copy the command into DataBuffer, one byte per write.
CrbLoadCommand(t) ==
    LET s == th[t] IN
    /\ s.pc = "crb_s2"
    /\ IF s.i < sizeIn
       THEN \E ok \in MapOutcomes :
                /\ Upd(t, [MmioWrite64(s, "CrbDataBuffer", s.i, s.sendBuffer[s.i + 1], 0, 1, ok)
                             EXCEPT !.i = @ + 1])
                /\ Spend(Cost(ok))
       ELSE Upd(t, [s EXCEPT !.pc = "crb_s2_high"]) /\ UNCHANGED mapBudget
    /\ UNCHANGED <<config, resp, fifoRd>>

DataBufferOffset == 128
\* (uintptr_t)crbReg->CrbDataBuffer, as [hi, lo].
CrbDataBufferAddr ==
    [hi |-> tpmBaseAddress.hi, lo |-> tpmBaseAddress.lo + DataBufferOffset]

\* What lies after the 4-byte local crbDataBuffer on the stack: the 8-byte
\* write of line 206 reads it as the high half.
StackWords == {0, 1}

\* Fault: CommandSize is not written.
CrbStage_SkipSize(pc, g) ==
    CASE pc = "crb_s2_high" ->
            [reg |-> "CrbControlCommandAddressHigh", val |-> CrbDataBufferAddr.hi, hi |-> 0,
             len |-> 4, next |-> "crb_s2_low"]
      [] pc = "crb_s2_low" ->
            [reg |-> "CrbControlCommandAddressLow", val |-> CrbDataBufferAddr.lo, hi |-> 0,
             len |-> 4, next |-> "crb_s2_raddr"]
      [] pc = "crb_s2_raddr" ->
            [reg |-> "CrbControlResponseAddrss", val |-> CrbDataBufferAddr.lo, hi |-> g,
             len |-> 8, next |-> "crb_s2_rsize"]
      [] OTHER ->
            [reg |-> "CrbControlResponseSize", val |-> CrbDataBufferSize, hi |-> 0,
             len |-> 4, next |-> "crb_s3"]

\* The address and size registers, in source order.
CrbStage(pc, g) ==
    CASE pc = "crb_s2_high" ->
            [reg |-> "CrbControlCommandAddressHigh", val |-> CrbDataBufferAddr.hi, hi |-> 0,
             len |-> 4, next |-> "crb_s2_low"]
      [] pc = "crb_s2_low" ->
            [reg |-> "CrbControlCommandAddressLow", val |-> CrbDataBufferAddr.lo, hi |-> 0,
             len |-> 4, next |-> "crb_s2_size"]
      [] pc = "crb_s2_size" ->
            [reg |-> "CrbControlCommandSize", val |-> CrbDataBufferSize, hi |-> 0,
             len |-> 4, next |-> "crb_s2_raddr"]
      [] pc = "crb_s2_raddr" ->
            [reg |-> "CrbControlResponseAddrss", val |-> CrbDataBufferAddr.lo, hi |-> g,
             len |-> 8, next |-> "crb_s2_rsize"]
      [] pc = "crb_s2_rsize" ->
            [reg |-> "CrbControlResponseSize", val |-> CrbDataBufferSize, hi |-> 0,
             len |-> 4, next |-> "crb_s3"]

CrbStagePcs == {"crb_s2_high", "crb_s2_low", "crb_s2_size", "crb_s2_raddr", "crb_s2_rsize"}

CrbStageRegisters(t) ==
    LET s == th[t] IN
    /\ s.pc \in CrbStagePcs
    /\ \E ok \in MapOutcomes, g \in (IF s.pc = "crb_s2_raddr" THEN StackWords ELSE {0}) :
        LET w == CrbStage(s.pc, g) IN
        /\ Upd(t, [MmioWrite64(s, w.reg, 0, w.val, w.hi, w.len, ok) EXCEPT !.pc = w.next])
        /\ Spend(Cost(ok))
    /\ UNCHANGED <<config, resp, fifoRd>>

\* STEP 3: write start, then wait for the TPM to clear it.
CrbStart(t) ==
    LET s == th[t] IN
    /\ s.pc = "crb_s3"
    /\ \E ok \in MapOutcomes :
        /\ Upd(t, [MmioWrite(s, "CrbControlStart", PTP_CRB_CONTROL_START, 4, ok)
                     EXCEPT !.pc = "crb_s3_wait", !.waitTime = 0])
        /\ Spend(Cost(ok))
    /\ UNCHANGED <<config, resp, fifoRd>>

\* The driver saw the device signal completion of the command.
SawCompletion(s) == s.completed

\* One byte of the response read from the device into bufferOut[i].
ReadByte(s, v, ok) ==
    [MapAccess(s, ok) EXCEPT !.bufferOut[s.i] = MmioRead(@, v, ok),
              !.i = @ + 1,
              !.devRead = IF ok THEN @ \cup {s.i} ELSE @,
              !.earlyRead = @ \/ (ok /\ ~SawCompletion(s))]

\* STEP 4: the response header, byte by byte.
CrbReadHeader(t) ==
    LET s == th[t] IN
    /\ s.pc = "crb_s4_hdr"
    /\ IF s.i < RespHeaderSize
       THEN \E ok \in MapOutcomes :
                /\ Upd(t, ReadByte(s, DeviceByte(s.i), ok))
                /\ Spend(Cost(ok))
       ELSE Upd(t, [s EXCEPT !.pc = "crb_s4_chk"]) /\ UNCHANGED mapBudget
    /\ UNCHANGED <<config, resp, fifoRd>>

\* Fault: the tag compared without the byte swap.
IsRspCommand_NoSwap(bufferOut) ==
    Load16(<<bufferOut[0], bufferOut[1]>>) = TPM_ST_RSP_COMMAND

\* The tag test of both transports: _byteswap_ushort(data16) == TPM_ST_RSP_COMMAND.
IsRspCommand(bufferOut) ==
    byteswap_ushort(Load16(<<bufferOut[0], bufferOut[1]>>)) = TPM_ST_RSP_COMMAND

\* tpmOutSize = _byteswap_ulong(data32), data32 copied from bufferOut + 2.
\* The swap is done on the memory image.
HeaderParamSize(bufferOut) ==
    Load32(Reverse4(<<bufferOut[2], bufferOut[3], bufferOut[4], bufferOut[5]>>))

\* Fault: the capacity comparison the wrong way round.
TooSmall_Reversed(sizeOut, tpmOutSize) == tpmOutSize < sizeOut

\* if (*sizeOut < tpmOutSize)
TooSmall(sizeOut, tpmOutSize) == sizeOut < tpmOutSize

\* The header checks shared by both transports; `exit` is the exit label and
\* `rest` the position that reads the remaining bytes.
CheckHeader(s, exit, rest) ==
    IF IsRspCommand(s.bufferOut)
    THEN [s EXCEPT !.status = STATUS_NOT_SUPPORTED, !.pc = exit]
    ELSE LET size == HeaderParamSize(s.bufferOut) IN
         IF TooSmall(s.sizeOut, size)
         THEN [s EXCEPT !.tpmOutSize = size, !.status = STATUS_BUFFER_TOO_SMALL, !.pc = exit]
         ELSE [s EXCEPT !.tpmOutSize = size, !.sizeOut = size, !.pc = rest]

CrbCheckHeader(t) ==
    LET s == th[t] IN
    /\ s.pc = "crb_s4_chk"
    /\ Upd(t, [CheckHeader(s, "crb_goidle", "crb_s4_rest") EXCEPT !.i = RespHeaderSize])
    /\ UNCHANGED <<config, resp, fifoRd, mapBudget>>

\* The remaining bytes, RespHeaderSize <= i < tpmOutSize.
CrbReadRest(t) ==
    LET s == th[t] IN
    /\ s.pc = "crb_s4_rest"
    /\ IF s.i < s.tpmOutSize
       THEN \E ok \in MapOutcomes :
                /\ Upd(t, ReadByte(s, DeviceByte(s.i), ok))
                /\ Spend(Cost(ok))
       ELSE Upd(t, [s EXCEPT !.pc = "crb_goidle"]) /\ UNCHANGED mapBudget
    /\ UNCHANGED <<config, resp, fifoRd>>

\* Fault: GoIdle_Exit returns status without the goIdle write.
CrbGoIdleExit_NoWrite(t) ==
    /\ th[t].pc = "crb_goidle"
    /\ Upd(t, [th[t] EXCEPT !.pc = "returned"])
    /\ UNCHANGED <<config, resp, fifoRd, mapBudget>>

\* GoIdle_Exit: write goIdle to CtrlRequest and return status.
CrbGoIdleExit(t) ==
    LET s == th[t] IN
    /\ s.pc = "crb_goidle"
    /\ \E ok \in MapOutcomes :
        /\ Upd(t, [MmioWrite(s, "CrbControlRequest", PTP_CRB_CONTROL_AREA_REQUEST_GO_IDLE, 4, ok)
                     EXCEPT !.pc = "returned"])
        /\ Spend(Cost(ok))
    /\ UNCHANGED <<config, resp, fifoRd>>

CrbCommand(t) ==
    \/ CrbEnforceIdle(t)
    \/ CrbCommandReady(t)
    \/ CrbWaitRegisterBits(t)
    \/ CrbCheckStatus(t)
    \/ CrbLoadCommand(t)
    \/ CrbStageRegisters(t)
    \/ CrbStart(t)
    \/ CrbReadHeader(t)
    \/ CrbCheckHeader(t)
    \/ CrbReadRest(t)
    \/ CrbGoIdleExit(t)

----------------------------------------------------------------------------
(* tis.hpp: TpmTis::TisCommand.                                            *)

\* tisReg is (TIS_PC_REGISTERS*)tpmBaseAddress.
tisRegIsNull == tpmBaseAddress.hi = 0 /\ tpmBaseAddress.lo = 0

TisWait(pc) ==
    CASE pc = "tis_prep_wait" ->
            [reg |-> "Status", bitSet |-> TIS_PC_STS_READY, bitClear |-> 0,
             timeOut |-> TIS_TIMEOUT_B, next |-> "tis_prep_chk"]
      [] pc = "tis_expect_wait" ->
            [reg |-> "Status", bitSet |-> TIS_PC_VALID, bitClear |-> TIS_PC_STS_EXPECT,
             timeOut |-> TIS_TIMEOUT_C, next |-> "tis_expect_chk"]
      [] pc = "tis_go_wait" ->
            [reg |-> "Status", bitSet |-> TIS_PC_VALID + TIS_PC_STS_DATA, bitClear |-> 0,
             timeOut |-> TIS_TIMEOUT_MAX, next |-> "tis_go_chk"]
      [] pc = "tis_cancel_wait" ->
            [reg |-> "Status", bitSet |-> TIS_PC_VALID + TIS_PC_STS_DATA, bitClear |-> 0,
             timeOut |-> TIS_TIMEOUT_B, next |-> "tis_cancel_chk"]

TisWaitPcs == {"tis_prep_wait", "tis_expect_wait", "tis_go_wait", "tis_cancel_wait"}

TisWaitRegisterBits(t) ==
    /\ th[t].pc \in TisWaitPcs
    /\ WaitAction(t, TisWait(th[t].pc))

\* TisPrepareCommand up to its wait: write STS_READY to Status.
TisPrepareCommand(t) ==
    LET s == th[t] IN
    /\ s.pc = "tis_prepare"
    /\ IF ~tisRegIsNull
       THEN \E ok \in MapOutcomes :
                /\ Upd(t, [MmioWrite(s, "Status", TIS_PC_STS_READY, 1, ok)
                             EXCEPT !.pc = "tis_prep_wait", !.waitTime = 0])
                /\ Spend(Cost(ok))
       ELSE /\ Upd(t, [s EXCEPT !.status = STATUS_INVALID_PARAMETER, !.pc = "tis_prep_chk"])
            /\ UNCHANGED mapBudget
    /\ UNCHANGED <<config, resp, fifoRd>>

\* The two bytes the device may show at BurstCount and BurstCount + 1.
BurstBytes == { <<0, 0>>, <<3, 0>>, <<5, 0>>, <<0, 1>> }

BurstPcs == {"tis_send_burst", "tis_hdr_burst", "tis_rest_burst"}
BurstNext(pc) ==
    CASE pc = "tis_send_burst" -> "tis_send_bchk"
      [] pc = "tis_hdr_burst" -> "tis_hdr_bchk"
      [] pc = "tis_rest_burst" -> "tis_rest_bchk"

\* What the device has granted and the driver has not yet moved through
\* DataFifo: the count just read in the send phase, added to the balance of
\* the drain in the header and remainder phases.
Granted(s, count) == IF s.pc = "tis_send_burst" THEN count ELSE s.credit + count

\* Fault: the two bytes combined high byte first.
BurstValue_BigEndian(dataByte0, dataByte1) == ((dataByte0 * 256) + dataByte1) % 65536

\* (uint16_t)((dataByte1 << 8) + dataByte0)
BurstValue(dataByte0, dataByte1) == ((dataByte1 * 256) + dataByte0) % 65536

\* What the device shows at BurstCount and BurstCount + 1 at this poll: any
\* of BurstBytes, or the reading scripted in the device record.
BurstShown(s) ==
    IF wire.type = "burst" THEN {wire.polls[(s.waitTime \div PollStep) + 1]} ELSE BurstBytes

\* One evaluation of the do-while of TisReadBurstCount: the two 1-byte reads
\* (values b0, b1; mapping outcomes ok0, ok1), the test, the stall.
BurstPoll(s, b0, ok0, b1, ok1) ==
    LET dataByte0 == MmioRead(0, b0, ok0)
        dataByte1 == MmioRead(0, b1, ok1)
        count == BurstValue(dataByte0, dataByte1)
        waited == s.waitTime + PollStep
        m == MapAccess(MapAccess(s, ok0), ok1)
    IN  IF count # 0
        THEN [m EXCEPT !.burstCount = count, !.status = STATUS_SUCCESS,
                       !.pc = BurstNext(s.pc), !.waitTime = 0,
                       !.timedOut = @ \ {s.pc},
                       !.credit = Granted(s, count)]
        ELSE IF waited < TIS_TIMEOUT_D
        THEN [m EXCEPT !.burstCount = 0, !.waitTime = waited]
        ELSE [m EXCEPT !.burstCount = 0, !.status = STATUS_TIMEOUT,
                       !.pc = BurstNext(s.pc), !.waitTime = 0,
                       !.timedOut = @ \cup {s.pc}]

TisReadBurstCount(t) ==
    LET s == th[t] IN
    /\ s.pc \in BurstPcs
    /\ IF ~tisRegIsNull
       THEN \E b \in BurstShown(s), ok0 \in MapOutcomes, ok1 \in MapOutcomes :
                /\ Cost(ok0) + Cost(ok1) <= mapBudget
                /\ Upd(t, BurstPoll(s, b[1], ok0, b[2], ok1))
                /\ Spend(Cost(ok0) + Cost(ok1))
       ELSE /\ Upd(t, [s EXCEPT !.status = STATUS_INVALID_PARAMETER, !.pc = BurstNext(s.pc)])
            /\ UNCHANGED mapBudget
    /\ UNCHANGED <<config, resp, fifoRd>>

\* Loop heads: while (i < sizeIn), while (i < sizeof(TPM2_RESPONSE_HEADER)),
\* while (i < tpmOutSize).
SendLoop(s) ==
    IF s.i < sizeIn
    THEN [s EXCEPT !.pc = "tis_send_burst", !.waitTime = 0]
    ELSE [s EXCEPT !.pc = "tis_expect_wait", !.waitTime = 0]
HeaderLoop(s) ==
    IF s.i < RespHeaderSize
    THEN [s EXCEPT !.pc = "tis_hdr_burst", !.waitTime = 0]
    ELSE [s EXCEPT !.pc = "tis_hdr_check"]
RestLoop(s) ==
    IF s.i < s.tpmOutSize
    THEN [s EXCEPT !.pc = "tis_rest_bytes"]
    ELSE [s EXCEPT !.pc = "tis_exit"]

\* What TisCommand does with the status a helper returned.
TisAfterWait(s, ok) ==
    CASE s.pc = "tis_prep_chk" ->
            IF NT_ERROR(s.status)
            THEN [s EXCEPT !.status = STATUS_DEVICE_BUSY, !.pc = "returned"]
            ELSE SendLoop([s EXCEPT !.i = 0, !.burstCount = 0, !.credit = 0])
      [] s.pc = "tis_send_bchk" ->
            IF NT_ERROR(s.status)
            THEN [s EXCEPT !.status = STATUS_DEVICE_BUSY, !.pc = "tis_exit"]
            ELSE [s EXCEPT !.pc = "tis_send_bytes"]
      [] s.pc = "tis_expect_chk" ->
            IF NT_ERROR(s.status)
            THEN [s EXCEPT !.status = STATUS_BUFFER_TOO_SMALL, !.pc = "tis_exit"]
            ELSE [s EXCEPT !.pc = "tis_go"]
      [] s.pc = "tis_go_chk" ->
            IF NT_ERROR(s.status)
            THEN [MmioWrite(s, "Status", TIS_PC_STS_CANCEL, 4, ok)
                    EXCEPT !.pc = "tis_cancel_wait", !.waitTime = 0,
                           !.nCancel = IF ok THEN @ + 1 ELSE @]
            ELSE HeaderLoop([s EXCEPT !.i = 0, !.burstCount = 0, !.credit = 0])
      [] s.pc = "tis_cancel_chk" ->
            IF NT_ERROR(s.status)
            THEN [s EXCEPT !.status = STATUS_DEVICE_BUSY, !.pc = "tis_exit"]
            ELSE HeaderLoop([s EXCEPT !.i = 0, !.burstCount = 0, !.credit = 0])
      [] s.pc = "tis_hdr_bchk" ->
            IF NT_ERROR(s.status)
            THEN [s EXCEPT !.status = STATUS_DEVICE_BUSY, !.pc = "tis_exit"]
            ELSE [s EXCEPT !.pc = "tis_hdr_bytes"]
      [] s.pc = "tis_rest_bchk" ->
            IF NT_ERROR(s.status)
            THEN [s EXCEPT !.status = STATUS_DEVICE_BUSY, !.pc = "tis_exit"]
            ELSE RestLoop(s)

TisCheckPcs ==
    {"tis_prep_chk", "tis_send_bchk", "tis_expect_chk", "tis_go_chk", "tis_cancel_chk",
     "tis_hdr_bchk", "tis_rest_bchk"}

TisCheckStatus(t) ==
    LET s == th[t] IN
    /\ s.pc \in TisCheckPcs
    /\ \E ok \in (IF s.pc = "tis_go_chk" /\ NT_ERROR(s.status) THEN MapOutcomes ELSE {TRUE}) :
        /\ Upd(t, TisAfterWait(s, ok))
        /\ Spend(Cost(ok))
    /\ UNCHANGED <<config, resp, fifoRd>>

\* One byte moved through DataFifo, when the access was mapped.
Moved(s, ok) == IF ok THEN s.credit - 1 ELSE s.credit

\* Fault: the send loop does not look at the burst count.
SendMore_IgnoreBurst(s) == s.i < sizeIn

\* The test of the send loop: burstCount > 0 && i < sizeIn.
SendMore(s) == s.burstCount > 0 /\ s.i < sizeIn

\* for (; burstCount > 0 && i < sizeIn; burstCount--): one byte to DataFifo.
TisSendBytes(t) ==
    LET s == th[t] IN
    /\ s.pc = "tis_send_bytes"
    /\ IF SendMore(s)
       THEN \E ok \in MapOutcomes :
                /\ Upd(t, [MmioWrite64(s, "DataFifo", s.i, s.sendBuffer[s.i + 1], 0, 1, ok)
                             EXCEPT !.i = @ + 1, !.burstCount = @ - 1,
                                    !.credit = Moved(s, ok)])
                /\ Spend(Cost(ok))
       ELSE Upd(t, SendLoop(s)) /\ UNCHANGED mapBudget
    /\ UNCHANGED <<config, resp, fifoRd>>

\* Write STS_GO to Status.
TisGo(t) ==
    LET s == th[t] IN
    /\ s.pc = "tis_go"
    /\ \E ok \in MapOutcomes :
        /\ Upd(t, [MmioWrite(s, "Status", TIS_PC_STS_GO, 1, ok)
                     EXCEPT !.pc = "tis_go_wait", !.waitTime = 0])
        /\ Spend(Cost(ok))
    /\ UNCHANGED <<config, resp, fifoRd>>

\* for (; burstCount > 0; burstCount--) of the header drain: one byte from
\* DataFifo; the break at i == sizeof(TPM2_RESPONSE_HEADER) skips burstCount--.
TisReadHeaderBytes(t) ==
    LET s == th[t] IN
    /\ s.pc = "tis_hdr_bytes"
    /\ IF s.burstCount > 0
       THEN \E ok \in MapOutcomes :
                LET r == [ReadByte(s, DeviceByte(fifoRd), ok) EXCEPT !.credit = Moved(s, ok)] IN
                /\ Upd(t, IF r.i = RespHeaderSize
                           THEN HeaderLoop(r)
                           ELSE [r EXCEPT !.burstCount = @ - 1])
                /\ fifoRd' = IF ok THEN fifoRd + 1 ELSE fifoRd
                /\ Spend(Cost(ok))
       ELSE Upd(t, HeaderLoop(s)) /\ UNCHANGED <<fifoRd, mapBudget>>
    /\ UNCHANGED <<config, resp>>

TisCheckHeader(t) ==
    LET s == th[t] IN
    /\ s.pc = "tis_hdr_check"
    /\ Upd(t, LET c == CheckHeader(s, "tis_exit", "tis_rest") IN
               IF c.pc = "tis_rest" THEN RestLoop(c) ELSE c)
    /\ UNCHANGED <<config, resp, fifoRd, mapBudget>>

\* for (; burstCount > 0; burstCount--) of the remainder: one byte from
\* DataFifo, success once i == tpmOutSize; then the next burst count.
TisReadRestBytes(t) ==
    LET s == th[t] IN
    /\ s.pc = "tis_rest_bytes"
    /\ IF s.burstCount > 0
       THEN \E ok \in MapOutcomes :
                LET r == [ReadByte(s, DeviceByte(fifoRd), ok) EXCEPT !.credit = Moved(s, ok)] IN
                /\ Upd(t, IF r.i = r.tpmOutSize
                           THEN [r EXCEPT !.status = STATUS_SUCCESS, !.pc = "tis_exit"]
                           ELSE [r EXCEPT !.burstCount = @ - 1])
                /\ fifoRd' = IF ok THEN fifoRd + 1 ELSE fifoRd
                /\ Spend(Cost(ok))
       ELSE /\ Upd(t, [s EXCEPT !.pc = "tis_rest_burst", !.waitTime = 0])
            /\ UNCHANGED <<fifoRd, mapBudget>>
    /\ UNCHANGED <<config, resp>>

\* Fault: Exit returns status without the STS_READY write.
TisExit_NoWrite(t) ==
    /\ th[t].pc = "tis_exit"
    /\ Upd(t, [th[t] EXCEPT !.pc = "returned"])
    /\ UNCHANGED <<config, resp, fifoRd, mapBudget>>

\* Exit: write STS_READY to Status and return status.
TisExit(t) ==
    LET s == th[t] IN
    /\ s.pc = "tis_exit"
    /\ \E ok \in MapOutcomes :
        /\ Upd(t, [MmioWrite(s, "Status", TIS_PC_STS_READY, 1, ok) EXCEPT !.pc = "returned"])
        /\ Spend(Cost(ok))
    /\ UNCHANGED <<config, resp, fifoRd>>

TisCommand(t) ==
    \/ TisPrepareCommand(t)
    \/ TisWaitRegisterBits(t)
    \/ TisReadBurstCount(t)
    \/ TisCheckStatus(t)
    \/ TisSendBytes(t)
    \/ TisGo(t)
    \/ TisReadHeaderBytes(t)
    \/ TisCheckHeader(t)
    \/ TisReadRestBytes(t)
    \/ TisExit(t)

----------------------------------------------------------------------------
(* tpm.hpp: ReadPublic after SubmitCommand returned.                       *)

\* responseCode = _byteswap_ulong(recvBuffer.Header.responseCode)
ResponseCode(bufferOut) ==
    Load32(Reverse4(<<bufferOut[6], bufferOut[7], bufferOut[8], bufferOut[9]>>))

\* Fault: TPM_RC_SEQUENCE handled by the default case.
ReadPublicAfterSubmit_NoSequence(s) ==
    IF NT_ERROR(s.status)
    THEN [s EXCEPT !.rpStatus = s.status, !.pc = "rp_done"]
    ELSE IF s.sizeOut < RespHeaderSize
    THEN [s EXCEPT !.rpStatus = STATUS_BUFFER_TOO_SMALL, !.pc = "rp_done"]
    ELSE IF ResponseCode(s.bufferOut) = TPM_RC_SUCCESS
    THEN [s EXCEPT !.pc = "rp_decode"]
    ELSE [s EXCEPT !.rpStatus = STATUS_DEVICE_BUSY, !.pc = "rp_done"]

\* The checks between SubmitCommand and the decoding of the payload.
ReadPublicAfterSubmit(s) ==
    IF NT_ERROR(s.status)
    THEN [s EXCEPT !.rpStatus = s.status, !.pc = "rp_done"]
    ELSE IF s.sizeOut < RespHeaderSize
    THEN [s EXCEPT !.rpStatus = STATUS_BUFFER_TOO_SMALL, !.pc = "rp_done"]
    ELSE IF ResponseCode(s.bufferOut) = TPM_RC_SUCCESS
    THEN [s EXCEPT !.pc = "rp_decode"]
    ELSE IF ResponseCode(s.bufferOut) = TPM_RC_SEQUENCE
    THEN [s EXCEPT !.rpStatus = STATUS_INVALID_PARAMETER, !.pc = "rp_done"]
    ELSE [s EXCEPT !.rpStatus = STATUS_DEVICE_BUSY, !.pc = "rp_done"]

ReadPublicCheck(t) ==
    /\ th[t].pc = "returned"
    /\ Upd(t, ReadPublicAfterSubmit(th[t]))
    /\ UNCHANGED <<config, resp, fifoRd, mapBudget>>

----------------------------------------------------------------------------
(* Specifications.                                                         *)

----------------------------------------------------------------------------
(* The device's side of TPM2_ReadPublic: responses built field by field.   *)

Be16(v) == <<v \div 256, v % 256>>
\* n bytes of a field; the content depends on the position, so that a copy
\* from a shifted offset differs.
FieldBytes(seed, n) == [j \in 1..n |-> (seed + (3 * j)) % 256]
Sized(bytes) == Be16(Len(bytes)) \o bytes

\* A response in fields.  `parms` lists the 16-bit words of the parameters in
\* wire order, each with the byte offset of its member in TPMU_PUBLIC_PARMS
\* (-1: the second half of the RSA exponent); `unique` lists the lengths of
\* the unique buffers; auth, name, qname are lengths; `pad` bytes follow the
\* unique field inside the public area, `tail` bytes follow the qualified
\* name, and the last `cut` bytes are not sent.
Wire(type, parms, unique, auth) ==
    [ type |-> type, nameAlg |-> 11, attributes |-> <<0, 3, 0, 178>>, auth |-> auth,
      parms |-> parms, unique |-> unique, name |-> 34, qname |-> 34,
      pad |-> 0, tail |-> 0, cut |-> 0 ]

RECURSIVE WireWords(_)
WireWords(parms) ==
    IF parms = <<>> THEN <<>> ELSE Be16(Head(parms)[2]) \o WireWords(Tail(parms))

WireUniqueSeed == <<23, 37>>
RECURSIVE WireUnique(_, _)
WireUnique(lens, k) ==
    IF k > Len(lens) THEN <<>>
    ELSE Sized(FieldBytes(WireUniqueSeed[k], lens[k])) \o WireUnique(lens, k + 1)

WirePublic(w) ==
    Be16(w.type) \o Be16(w.nameAlg) \o w.attributes \o Sized(FieldBytes(11, w.auth))
      \o WireWords(w.parms) \o WireUnique(w.unique, 1) \o FieldBytes(67, w.pad)

WireName(w) == FieldBytes(41, w.name)
WireQualifiedName(w) == FieldBytes(53, w.qname)

WireBody(w) ==
    Sized(WirePublic(w)) \o Sized(WireName(w)) \o Sized(WireQualifiedName(w))
      \o FieldBytes(71, w.tail)

\* The frame the device sends: param_size is the length actually sent.
ReadPublicResponse(w) ==
    LET size == (RespHeaderSize + Len(WireBody(w))) - w.cut
        all == Be16(TPM_ST_NO_SESSIONS) \o <<0, 0>> \o Be16(size) \o <<0, 0>>
                 \o Be16(TPM_RC_SUCCESS) \o WireBody(w)
    IN  SubSeq(all, 1, size)

\* Parameter words by variant.
WireKeyedHash(scheme) ==
    IF scheme = TPM_ALG_HMAC THEN <<<<0, scheme>>, <<2, 11>>>>
    ELSE IF scheme = TPM_ALG_XOR THEN <<<<0, scheme>>, <<2, 11>>, <<4, 34>>>>
    ELSE <<<<0, scheme>>>>
WireSymmetric(algorithm, withXor) ==
    IF algorithm \in {TPM_ALG_AES, TPM_ALG_SM4} THEN <<<<0, algorithm>>, <<2, 128>>, <<4, 67>>>>
    ELSE IF withXor /\ algorithm = TPM_ALG_XOR THEN <<<<0, algorithm>>, <<2, 11>>>>
    ELSE <<<<0, algorithm>>>>
WireScheme(off, scheme, withHash) ==
    IF scheme \in withHash THEN <<<<off, scheme>>, <<off + 2, 11>>>> ELSE <<<<off, scheme>>>>
RsaHashSchemes == {TPM_ALG_RSASSA, TPM_ALG_RSAPSS, TPM_ALG_OAEP}
EccHashSchemes == {TPM_ALG_ECDSA, TPM_ALG_ECDAA, TPM_ALG_ECSCHNORR}
KdfSchemes == {TPM_ALG_MGF1, TPM_ALG_KDF1_SP800_56a, TPM_ALG_KDF2, TPM_ALG_KDF1_SP800_108}
WireRsa(algorithm, scheme, exponent) ==
    WireSymmetric(algorithm, FALSE) \o WireScheme(6, scheme, RsaHashSchemes)
      \o <<<<12, 2048>>, <<14, exponent[1]>>, <<-1, exponent[2]>>>>
WireEcc(algorithm, scheme, kdf) ==
    WireSymmetric(algorithm, FALSE) \o WireScheme(6, scheme, EccHashSchemes)
      \o <<<<12, 3>>>> \o WireScheme(14, kdf, KdfSchemes)

AuthLens == {0, 32}
NameLens == {0, 34, 66}
WireRsaDefault == WireRsa(TPM_ALG_NULL, TPM_ALG_NULL, <<0, 0>>)
WireEccDefault == WireEcc(TPM_ALG_NULL, TPM_ALG_NULL, TPM_ALG_NULL)
\* Unique lengths of KEYEDHASH; 6, 10, 16 and 19 are also algorithm numbers.
KeyedHashLens == {0, 6, 10, 16, 19, 32, 64}
SymLens == {0, 32, 64}
RsaLens == {0, 1, 256, 512}
EccLens == {<<32, 32>>, <<128, 48>>}
\* The exponent as its two 16-bit halves: 0 (the default) and 65537.
RsaExponents == {<<0, 0>>, <<1, 1>>}

WellFormedKeyedHash ==
    { Wire(TPM_ALG_KEYEDHASH, WireKeyedHash(scheme), <<len>>, auth) :
        scheme \in {TPM_ALG_HMAC, TPM_ALG_XOR}, len \in KeyedHashLens, auth \in AuthLens }
WellFormedSymCipher ==
    { Wire(TPM_ALG_SYMCIPHER, WireSymmetric(algorithm, TRUE), <<len>>, auth) :
        algorithm \in {TPM_ALG_AES, TPM_ALG_SM4, TPM_ALG_XOR, TPM_ALG_NULL},
        len \in SymLens, auth \in AuthLens }
WellFormedRsa ==
    { Wire(TPM_ALG_RSA, WireRsa(algorithm, scheme, exponent), <<len>>, auth) :
        algorithm \in {TPM_ALG_AES, TPM_ALG_SM4, TPM_ALG_NULL},
        scheme \in RsaHashSchemes \cup {TPM_ALG_RSAES, TPM_ALG_NULL},
        exponent \in RsaExponents, len \in RsaLens, auth \in AuthLens }
      \cup { [Wire(TPM_ALG_RSA, WireRsaDefault, <<256>>, 32) EXCEPT !.name = n, !.qname = q] :
                n \in NameLens, q \in NameLens }
WellFormedEcc ==
    { Wire(TPM_ALG_ECC, WireEcc(algorithm, scheme, kdf), lens, auth) :
        algorithm \in {TPM_ALG_AES, TPM_ALG_NULL},
        scheme \in EccHashSchemes \cup {TPM_ALG_ECDH, TPM_ALG_NULL},
        kdf \in KdfSchemes \cup {TPM_ALG_NULL},
        lens \in EccLens, auth \in AuthLens }
WellFormed == WellFormedKeyedHash \cup WellFormedSymCipher \cup WellFormedRsa \cup WellFormedEcc

\* A type, or a discriminator inside a defined type, that is not defined.
UndefinedTypes == {0, 4, 16, 36}
UndefinedCases ==
    { Wire(type, <<<<0, TPM_ALG_NULL>>>>, <<32>>, 32) : type \in UndefinedTypes }
      \cup { Wire(TPM_ALG_KEYEDHASH, WireKeyedHash(TPM_ALG_NULL), <<32>>, 32),
             Wire(TPM_ALG_SYMCIPHER, WireSymmetric(3, TRUE), <<32>>, 32),
             Wire(TPM_ALG_RSA, WireRsa(TPM_ALG_XOR, TPM_ALG_NULL, <<0, 0>>), <<256>>, 32),
             Wire(TPM_ALG_RSA, WireRsa(TPM_ALG_NULL, TPM_ALG_ECDSA, <<0, 0>>), <<256>>, 32),
             Wire(TPM_ALG_ECC, WireEcc(TPM_ALG_NULL, TPM_ALG_RSASSA, TPM_ALG_NULL), <<32, 32>>, 32),
             Wire(TPM_ALG_ECC, WireEcc(TPM_ALG_NULL, TPM_ALG_NULL, TPM_ALG_HMAC), <<32, 32>>, 32) }

\* One field longer than its maximum, the bytes present on the wire.
OversizeCases ==
    { Wire(TPM_ALG_RSA, WireRsaDefault, <<256>>, sizeof_TPMU_HA + 1),
      Wire(TPM_ALG_KEYEDHASH, WireKeyedHash(TPM_ALG_HMAC), <<sizeof_TPMU_HA + 1>>, 32),
      Wire(TPM_ALG_SYMCIPHER, WireSymmetric(TPM_ALG_AES, TRUE), <<sizeof_TPMU_HA + 1>>, 32),
      Wire(TPM_ALG_RSA, WireRsaDefault, <<MAX_RSA_KEY_BYTES + 1>>, 32),
      Wire(TPM_ALG_ECC, WireEccDefault, <<MAX_ECC_KEY_BYTES + 1, 32>>, 32),
      Wire(TPM_ALG_ECC, WireEccDefault, <<32, MAX_ECC_KEY_BYTES + 1>>, 32),
      [Wire(TPM_ALG_RSA, WireRsaDefault, <<256>>, 32) EXCEPT !.name = sizeof_TPMU_NAME + 1],
      [Wire(TPM_ALG_RSA, WireRsaDefault, <<256>>, 32) EXCEPT !.qname = sizeof_TPMU_NAME + 1],
      [Wire(TPM_ALG_RSA, WireRsaDefault, <<MAX_RSA_KEY_BYTES>>, sizeof_TPMU_HA)
         EXCEPT !.pad = 11] }

\* Frames whose length disagrees with their fields, and frames with bytes
\* left over inside the public area.
Distortions == {<<0, 1, 0>>, <<0, 0, 1>>, <<0, 0, 3>>, <<2, 0, 0>>}
DistortedCases ==
    { [w EXCEPT !.pad = x[1], !.tail = x[2], !.cut = x[3]] :
        w \in { Wire(TPM_ALG_RSA, WireRsaDefault, <<256>>, 32),
                Wire(TPM_ALG_ECC, WireEccDefault, <<32, 32>>, 32),
                Wire(TPM_ALG_SYMCIPHER, WireSymmetric(TPM_ALG_AES, TRUE), <<32>>, 32) },
        x \in Distortions }

\* Frames whose public area ends before the unique field: the size-prefixed
\* name lies where the decoder looks for the unique buffer.
ShortPublicCases ==
    { Wire(TPM_ALG_RSA, WireRsaDefault, <<>>, 32),
      Wire(TPM_ALG_SYMCIPHER, WireSymmetric(TPM_ALG_AES, TRUE), <<>>, 32) }

WireCases ==
    WellFormed \cup UndefinedCases \cup OversizeCases \cup DistortedCases \cup ShortPublicCases

----------------------------------------------------------------------------
(* tpm.hpp: Tpm::ReadPublic, decoding of TPM2_READ_PUBLIC_RESPONSE.        *)

\* recvBuffer is zero-initialised and the transport writes its first
\* sizeOut bytes.
RecvByte(s, k) == IF k \in DOMAIN s.bufferOut THEN s.bufferOut[k] ELSE 0
RecvBytes(s, k, n) == [j \in 1..n |-> RecvByte(s, k + j - 1)]
\* _byteswap_ushort(ReadUnaligned<uint16_t>(recvBuffer + k)).
ReadSwapped16(s, k) == byteswap_ushort(Load16(<<RecvByte(s, k), RecvByte(s, k + 1)>>))

outPublicSize(s) == ReadSwapped16(s, OutPublicOffset)
NameOffset(s) == RespHeaderSize + 2 + outPublicSize(s)
nameSize(s) == ReadSwapped16(s, NameOffset(s))
QualifiedNameOffset(s) == NameOffset(s) + 2 + nameSize(s)
qualifiedNameSize(s) == ReadSwapped16(s, QualifiedNameOffset(s))

\* Fault: the received length is not compared with the sum of the fields.
BasicCheck_NoLength(s) ==
    IF outPublicSize(s) > sizeof_TPMT_PUBLIC THEN STATUS_DEVICE_BUSY
    ELSE IF nameSize(s) > sizeof_TPMU_NAME THEN STATUS_DEVICE_BUSY
    ELSE IF qualifiedNameSize(s) > sizeof_TPMU_NAME THEN STATUS_DEVICE_BUSY
    ELSE STATUS_SUCCESS

\* "Basic check": STATUS_SUCCESS stands for falling through to the decoder.
BasicCheck(s) ==
    IF outPublicSize(s) > sizeof_TPMT_PUBLIC THEN STATUS_DEVICE_BUSY
    ELSE IF nameSize(s) > sizeof_TPMU_NAME THEN STATUS_DEVICE_BUSY
    ELSE IF qualifiedNameSize(s) > sizeof_TPMU_NAME THEN STATUS_DEVICE_BUSY
    ELSE IF s.sizeOut # RespHeaderSize + 2 + outPublicSize(s) + 2 + nameSize(s)
                          + 2 + qualifiedNameSize(s)
    THEN STATUS_DEVICE_BUSY
    ELSE STATUS_SUCCESS

\* The decoder between two statements: `done` once it has returned `status`.
DecodeStart(s) ==
    [ done |-> FALSE, status |-> STATUS_SUCCESS, buf |-> OutPublicOffset, out |-> s.out,
      copies |-> {}, expAt |-> 0, uniqueAt |-> 0 ]
Return(d, status) == [d EXCEPT !.done = TRUE, !.status = status]

\* member = _byteswap_ushort(ReadUnaligned<uint16_t>(buffer)); buffer += 2,
\* for the member of `parameters` at byte offset off.
ReadParameter(s, d, off) ==
    IF d.done THEN d
    ELSE [d EXCEPT !.out.parameters = (off :> ReadSwapped16(s, d.buf)) @@ @, !.buf = @ + 2]

\* Byte k of *outPublic after the memcpy of 2 + outPublicSize bytes.
PublicByte(s, k) == IF k < 2 + outPublicSize(s) THEN RecvByte(s, OutPublicOffset + k) ELSE 0

\* From the memcpy into *outPublic to the copy of authPolicy.
DecodeHeader(s, d) ==
    LET n == outPublicSize(s)
        authSize == ReadSwapped16(s, AuthPolicyOffset)
        head == [d.out EXCEPT
                    !.raw = RecvBytes(s, OutPublicOffset, 2 + n),
                    !.size = n,
                    !.type = byteswap_ushort(Load16(<<PublicByte(s, 2), PublicByte(s, 3)>>)),
                    !.nameAlg = byteswap_ushort(Load16(<<PublicByte(s, 4), PublicByte(s, 5)>>)),
                    !.objectAttributes = Reverse4(<<PublicByte(s, 6), PublicByte(s, 7),
                                                    PublicByte(s, 8), PublicByte(s, 9)>>),
                    !.authPolicy.size = authSize]
        d1 == [d EXCEPT !.out = head, !.buf = AuthPolicyOffset + 2,
                        !.copies = @ \cup {<<"outPublic", 2 + n>>}]
    IN  IF authSize > sizeof_TPMU_HA THEN Return(d1, STATUS_DEVICE_BUSY)
        ELSE [d1 EXCEPT !.out.authPolicy.buffer = RecvBytes(s, d1.buf, authSize),
                        !.copies = @ \cup {<<"authPolicy", authSize>>},
                        !.buf = @ + authSize]

\* keyedHashDetail: scheme, then hmac.hashAlg or xor.hashAlg and xor.kdf.
KeyedHashDetail(s, d) ==
    LET a == ReadParameter(s, d, 0)
        scheme == a.out.parameters[0]
    IN  IF d.done THEN d
        ELSE IF scheme = TPM_ALG_HMAC THEN ReadParameter(s, a, 2)
        ELSE IF scheme = TPM_ALG_XOR THEN ReadParameter(s, ReadParameter(s, a, 2), 4)
        ELSE Return(a, STATUS_NOT_SUPPORTED)

\* symDetail, rsaDetail.symmetric, eccDetail.symmetric: algorithm, then
\* keyBits and mode; only symDetail has the TPM_ALG_XOR case.
SymmetricDetail(s, d, withXor) ==
    LET a == ReadParameter(s, d, 0)
        algorithm == a.out.parameters[0]
    IN  IF d.done THEN d
        ELSE IF algorithm \in {TPM_ALG_AES, TPM_ALG_SM4}
        THEN ReadParameter(s, ReadParameter(s, a, 2), 4)
        ELSE IF withXor /\ algorithm = TPM_ALG_XOR THEN ReadParameter(s, a, 2)
        ELSE IF algorithm = TPM_ALG_NULL THEN a
        ELSE Return(a, STATUS_NOT_SUPPORTED)

\* A scheme member at offset off: the schemes in withHash are followed by
\* one hashAlg, those in bare by nothing.
SchemeDetail(s, d, off, withHash, bare) ==
    LET a == ReadParameter(s, d, off)
        scheme == a.out.parameters[off]
    IN  IF d.done THEN d
        ELSE IF scheme \in withHash THEN ReadParameter(s, a, off + 2)
        ELSE IF scheme \in bare THEN a
        ELSE Return(a, STATUS_NOT_SUPPORTED)

\* Fault: the cursor moves past the exponent by sizeof(uint16_t).
RsaExponent_Advance2(s, d) ==
    IF d.done THEN d
    ELSE [d EXCEPT !.out.parameters = (14 :> ReadSwapped16(s, d.buf)) @@ (16 :> 0) @@ @,
                   !.expAt = d.buf,
                   !.buf = @ + 2]

\* rsaDetail.exponent (uint32_t) = _byteswap_ushort(16-bit read);
\* buffer += sizeof(uint32_t).
RsaExponent(s, d) ==
    IF d.done THEN d
    ELSE [d EXCEPT !.out.parameters = (14 :> ReadSwapped16(s, d.buf)) @@ (16 :> 0) @@ @,
                   !.expAt = d.buf,
                   !.buf = @ + 4]

RsaDetail(s, d) ==
    LET sym == SymmetricDetail(s, d, FALSE)
        scheme == SchemeDetail(s, sym, 6, {TPM_ALG_RSASSA, TPM_ALG_RSAPSS, TPM_ALG_OAEP},
                               {TPM_ALG_RSAES, TPM_ALG_NULL})
    IN  RsaExponent(s, ReadParameter(s, scheme, 12))

EccDetail(s, d) ==
    LET sym == SymmetricDetail(s, d, FALSE)
        scheme == SchemeDetail(s, sym, 6, {TPM_ALG_ECDSA, TPM_ALG_ECDAA, TPM_ALG_ECSCHNORR},
                               {TPM_ALG_ECDH, TPM_ALG_NULL})
        curveID == ReadParameter(s, scheme, 12)
    IN  SchemeDetail(s, curveID, 14,
                     {TPM_ALG_MGF1, TPM_ALG_KDF1_SP800_108, TPM_ALG_KDF1_SP800_56a, TPM_ALG_KDF2},
                     {TPM_ALG_NULL})

\* switch (type) over TPMU_PUBLIC_PARMS.  The TPM_ALG_KEYEDHASH case has no
\* break: control runs on into the TPM_ALG_SYMCIPHER case.
DecodeParameters(s, d) ==
    IF d.done THEN d
    ELSE CASE d.out.type = TPM_ALG_KEYEDHASH -> SymmetricDetail(s, KeyedHashDetail(s, d), TRUE)
           [] d.out.type = TPM_ALG_SYMCIPHER -> SymmetricDetail(s, d, TRUE)
           [] d.out.type = TPM_ALG_RSA -> RsaDetail(s, d)
           [] d.out.type = TPM_ALG_ECC -> EccDetail(s, d)
           [] OTHER -> Return(d, STATUS_NOT_SUPPORTED)

\* One buffer of TPMU_PUBLIC_ID: size, test against max, memcpy.
UniqueBuffer(s, d, which, max) ==
    LET n == ReadSwapped16(s, d.buf)
        sized == [d EXCEPT !.out.unique[which].size = n, !.buf = @ + 2]
    IN  IF d.done THEN d
        ELSE IF n > max THEN Return(sized, STATUS_DEVICE_BUSY)
        ELSE [sized EXCEPT !.out.unique[which].buffer = RecvBytes(s, sized.buf, n),
                           !.copies = @ \cup {<<"unique." \o which, n>>},
                           !.buf = @ + n]

\* switch (type) over TPMU_PUBLIC_ID.
DecodeUnique(s, d) ==
    LET u == [d EXCEPT !.uniqueAt = d.buf] IN
    IF d.done THEN d
    ELSE CASE d.out.type \in {TPM_ALG_KEYEDHASH, TPM_ALG_SYMCIPHER}
                -> UniqueBuffer(s, u, "x", sizeof_TPMU_HA)
           [] d.out.type = TPM_ALG_RSA -> UniqueBuffer(s, u, "x", MAX_RSA_KEY_BYTES)
           [] d.out.type = TPM_ALG_ECC
                -> UniqueBuffer(s, UniqueBuffer(s, u, "x", MAX_ECC_KEY_BYTES), "y",
                                MAX_ECC_KEY_BYTES)
           [] OTHER -> Return(d, STATUS_NOT_SUPPORTED)

\* Fault: qualifiedName is copied from the start of name.
DecodeNames_SameOffset(s, d) ==
    IF d.done THEN d
    ELSE Return([d EXCEPT
            !.out.name = [size |-> nameSize(s),
                          buffer |-> RecvBytes(s, NameOffset(s) + 2, nameSize(s))],
            !.out.qualifiedName = [size |-> qualifiedNameSize(s),
                                   buffer |-> RecvBytes(s, NameOffset(s) + 2,
                                                        qualifiedNameSize(s))],
            !.copies = @ \cup {<<"name", nameSize(s)>>,
                               <<"qualifiedName", qualifiedNameSize(s)>>}],
         STATUS_SUCCESS)

\* The two final copies and return STATUS_SUCCESS.
DecodeNames(s, d) ==
    IF d.done THEN d
    ELSE Return([d EXCEPT
            !.out.name = [size |-> nameSize(s),
                          buffer |-> RecvBytes(s, NameOffset(s) + 2, nameSize(s))],
            !.out.qualifiedName = [size |-> qualifiedNameSize(s),
                                   buffer |-> RecvBytes(s, QualifiedNameOffset(s) + 2,
                                                        qualifiedNameSize(s))],
            !.copies = @ \cup {<<"name", nameSize(s)>>,
                               <<"qualifiedName", qualifiedNameSize(s)>>}],
         STATUS_SUCCESS)

\* ReadPublic from "Basic check" to its return.
DecodeResponse(s) ==
    IF BasicCheck(s) # STATUS_SUCCESS THEN Return(DecodeStart(s), BasicCheck(s))
    ELSE DecodeNames(s, DecodeUnique(s, DecodeParameters(s, DecodeHeader(s, DecodeStart(s)))))

ReadPublicDecode(t) ==
    LET s == th[t]
        d == DecodeResponse(s)
    IN  /\ s.pc = "rp_decode"
        /\ Upd(t, [s EXCEPT !.pc = "rp_decoded",
                            !.rpStatus = d.status,
                            !.out = d.out,
                            !.dec = [buf |-> d.buf, copies |-> d.copies,
                                     expAt |-> d.expAt, uniqueAt |-> d.uniqueAt]])
        /\ UNCHANGED <<config, resp, fifoRd, mapBudget>>

Step(t) ==
    \/ ReadPublicCall(t)
    \/ SubmitCommand(t)
    \/ CrbCommand(t)
    \/ TisCommand(t)
    \/ ReadPublicCheck(t)
    \/ ReadPublicDecode(t)

Next == \E t \in ThreadIds : Step(t)

\* One caller; every mapping succeeds.
Spec == Init /\ [][Next]_vars

\* Two callers on the same Tpm object, each inside ReadPublic, on a CRB device
\* with one fixed response.
InitConc ==
    /\ cachedInterface = "PtpInterfaceCrb"
    /\ idleByPassState \in {0, 1}
    /\ tpmBaseAddress \in AcpiBases
    /\ ptp = PtpAfterInit
    /\ resp = Response(TPM_ST_NO_SESSIONS, 12, TPM_RC_SUCCESS)
    /\ wire = NoWire
    /\ fifoRd = 0
    /\ mapBudget = 0
    /\ th = [t \in ThreadIds |-> NewCall(12)]

StepCrb(t) ==
    \/ ReadPublicCall(t)
    \/ SubmitCommand(t)
    \/ CrbCommand(t)
    \/ ReadPublicCheck(t)
    \/ ReadPublicDecode(t)

NextConc == \E t \in ThreadIds : StepCrb(t)

SpecConc == InitConc /\ [][NextConc]_vars

\* The calling thread keeps running: a call that can take a step takes one.
\* What the device shows at each register read stays unconstrained.
SpecLive == Init /\ [][Next]_vars /\ WF_vars(Next)

\* One caller, one response; up to MaxMapFail calls of MmMapIoSpace fail.
InitMap ==
    /\ InitConfig
    /\ resp = Response(TPM_ST_NO_SESSIONS, 12, TPM_RC_SUCCESS)
    /\ wire = NoWire
    /\ fifoRd = 0
    /\ mapBudget = MaxMapFail
    /\ th = [t \in ThreadIds |-> IF t = 1 THEN NewCall(12) ELSE Absent]

SpecMap == InitMap /\ [][Next]_vars

\* sizeof(TPM2_READ_PUBLIC_RESPONSE): header, TPM2B_PUBLIC, two TPM2B_NAME.
RecvBufferSize == RespHeaderSize + (2 + sizeof_TPMT_PUBLIC) + (2 * (2 + sizeof_TPMU_NAME))

\* ReadPublic at the return of SubmitCommand, the transport having delivered
\* the frame r with success.
Delivered(r) ==
    [NewCall(RecvBufferSize) EXCEPT
        !.pc = "returned",
        !.status = STATUS_SUCCESS,
        !.sizeOut = Len(r),
        !.sendBuffer = SendBuffer,
        !.bufferOut = [k \in 0..(RecvBufferSize - 1) |-> IF k < Len(r) THEN r[k + 1] ELSE 0],
        !.completed = TRUE]

InitDecode ==
    /\ cachedInterface = "PtpInterfaceCrb"
    /\ idleByPassState = 1
    /\ tpmBaseAddress \in AcpiBases
    /\ ptp = PtpAfterInit
    /\ wire \in WireCases
    /\ resp = ReadPublicResponse(wire)
    /\ fifoRd = 0
    /\ mapBudget = 0
    /\ th = [t \in ThreadIds |-> IF t = 1 THEN Delivered(resp) ELSE Absent]

StepDecode(t) ==
    \/ ReadPublicCheck(t)
    \/ ReadPublicDecode(t)

NextDecode == \E t \in ThreadIds : StepDecode(t)

\* The decoder of ReadPublic on every frame of WireCases.
SpecDecode == InitDecode /\ [][NextDecode]_vars

\* WriteUnaligned(_byteswap_*(v)) followed by _byteswap_*(ReadUnaligned(...)),
\* on the 16-bit value and the 32-bit image the device record holds.
SwapWriteRead(t) ==
    LET s == th[t]
        enc16 == Mem16(byteswap_ushort(wire.u16))
        enc32 == byteswap_ulong_mem(wire.u32)
    IN  /\ s.pc = "codec"
        /\ Upd(t, [s EXCEPT !.pc = "codec_done",
                            !.codec = [enc16 |-> enc16,
                                       dec16 |-> byteswap_ushort(Load16(enc16)),
                                       enc32 |-> enc32,
                                       dec32 |-> byteswap_ulong_mem(enc32)]])
        /\ UNCHANGED <<config, resp, fifoRd, mapBudget>>

\* Every 16-bit value; 32-bit images with each byte one of five values.
CodecBytes == {0, 1, 127, 128, 255}
CodecInputs ==
    { [type |-> "codec", u16 |-> v, u32 |-> ObjectHandleMem] : v \in 0..65535 }
      \cup { [type |-> "codec", u16 |-> TPM_ST_NO_SESSIONS, u32 |-> <<a, b, c, d>>] :
                a \in CodecBytes, b \in CodecBytes, c \in CodecBytes, d \in CodecBytes }

InitCodec ==
    /\ InitConfig
    /\ resp = Response(TPM_ST_NO_SESSIONS, 12, TPM_RC_SUCCESS)
    /\ wire \in CodecInputs
    /\ fifoRd = 0
    /\ mapBudget = 0
    /\ th = [t \in ThreadIds |-> IF t = 1 THEN [NewCall(12) EXCEPT !.pc = "codec"] ELSE Absent]

NextCodec == \E t \in ThreadIds : SwapWriteRead(t)

SpecCodec == InitCodec /\ [][NextCodec]_vars

\* TisReadBurstCount against a device whose BurstCount readings are scripted:
\* one pair of bytes for each poll the TIS_TIMEOUT_D window allows.
BurstWindow == (TIS_TIMEOUT_D + PollStep - 1) \div PollStep
BurstReadings == { <<b0, b1>> : b0 \in {0, 1, 3, 255}, b1 \in {0, 1, 255} }

\* TisCommand at its first call of TisReadBurstCount, TisPrepareCommand done.
InitBurst ==
    /\ cachedInterface \in {"PtpInterfaceFifo", "PtpInterfaceTis"}
    /\ idleByPassState = 255
    /\ tpmBaseAddress \in AcpiBases
    /\ ptp = PtpAfterInit
    /\ resp = Response(TPM_ST_NO_SESSIONS, 12, TPM_RC_SUCCESS)
    /\ \E polls \in [1..BurstWindow -> BurstReadings] : wire = [type |-> "burst", polls |-> polls]
    /\ fifoRd = 0
    /\ mapBudget = 0
    /\ th = [t \in ThreadIds |->
               IF t = 1
               THEN [MmioWrite(NewCall(12), "Status", TIS_PC_STS_READY, 1, TRUE)
                       EXCEPT !.pc = "tis_send_burst", !.status = STATUS_SUCCESS,
                              !.sendBuffer = SendBuffer]
               ELSE Absent]

NextBurst == \E t \in ThreadIds : TisReadBurstCount(t)

SpecBurst == InitBurst /\ [][NextBurst]_vars

\* The wait helpers against scripted polls: CrbWaitRegisterBits at the first
\* wait of step 1 (cmdReady just written), TisWaitRegisterBits at the wait
\* for STS_EXPECT (command sent).  Each poll has a value and the outcome of
\* its mapping; every mapping may be refused.
WaitWindow(timeOut) == (timeOut + PollStep - 1) \div PollStep
ScriptedWait == IF OnCrbKind THEN CrbWait("crb_s1_req_wait") ELSE TisWait("tis_expect_wait")

InitWait ==
    /\ \E d \in Discovered \ {<<"PtpInterfaceNull", 255>>} :
          cachedInterface = d[1] /\ idleByPassState = d[2]
    /\ tpmBaseAddress \in AcpiBases
    /\ ptp = PtpAfterInit
    /\ resp = Response(TPM_ST_NO_SESSIONS, 12, TPM_RC_SUCCESS)
    /\ \E polls \in [1..WaitWindow(ScriptedWait.timeOut)
                         -> RegValues(ScriptedWait.reg) \X BOOLEAN] :
          wire = [type |-> "wait", polls |-> polls]
    /\ fifoRd = 0
    /\ mapBudget = WaitWindow(ScriptedWait.timeOut)
    /\ th = [t \in ThreadIds |->
               IF t # 1 THEN Absent
               ELSE IF OnCrbKind
               THEN [MmioWrite(NewCall(12), "CrbControlRequest",
                               PTP_CRB_CONTROL_AREA_REQUEST_COMMAND_READY, 4, TRUE)
                       EXCEPT !.pc = "crb_s1_req_wait", !.sendBuffer = SendBuffer]
               ELSE [MmioWrite(NewCall(12), "Status", TIS_PC_STS_READY, 1, TRUE)
                       EXCEPT !.pc = "tis_expect_wait", !.status = STATUS_SUCCESS,
                              !.sendBuffer = SendBuffer, !.i = sizeIn]]

NextWait == \E t \in ThreadIds : CrbWaitRegisterBits(t) \/ TisWaitRegisterBits(t)

SpecWait == InitWait /\ [][NextWait]_vars

\* Object handles, as host memory images: every byte one of four values.
HandleBytes == {0, 1, 129, 255}
Handles == { <<a, b, c, d>> : a \in HandleBytes, b \in HandleBytes,
                              c \in HandleBytes, d \in HandleBytes }

InitEncode ==
    /\ InitConfig
    /\ resp = Response(TPM_ST_NO_SESSIONS, 12, TPM_RC_SUCCESS)
    /\ wire = NoWire
    /\ fifoRd = 0
    /\ mapBudget = 0
    /\ \E h \in Handles :
        th = [t \in ThreadIds |-> IF t = 1 THEN [NewCall(12) EXCEPT !.objectHandle = h]
                                              ELSE Absent]

\* ReadPublic up to the call of the transport.
StepEncode(t) ==
    \/ ReadPublicCall(t)
    \/ SubmitCommand(t)

NextEncode == \E t \in ThreadIds : StepEncode(t)

\* The command ReadPublic builds, for every handle of Handles.
SpecEncode == InitEncode /\ [][NextEncode]_vars

\* Register values discovery is run against: every field of InterfaceId and
\* InterfaceCapability it looks at, over the field's whole width.
PtpPresence == {0, 1, 255}
PtpTypes == 0..15
PtpVersions == 0..15
PtpCapVersions == 0..7
PtpBits == {0, 1}

PtpRegisters ==
    { PtpRegs(p, ty, v, c, f, b, cv) :
        p \in PtpPresence, ty \in PtpTypes, v \in PtpVersions,
        c \in PtpBits, f \in PtpBits, b \in PtpBits, cv \in PtpCapVersions }

\* The object as constructed (ptp.hpp:103-104), before Init.
InitUndiscovered ==
    /\ cachedInterface = "PtpInterfaceNull"
    /\ idleByPassState = 255
    /\ tpmBaseAddress \in AcpiBases \cup {PtpBaseAddress}
    /\ resp = Response(TPM_ST_NO_SESSIONS, 12, TPM_RC_SUCCESS)
    /\ wire = NoWire
    /\ fifoRd = 0
    /\ th = [t \in ThreadIds |-> IF t = 1 THEN [NewCall(12) EXCEPT !.pc = "init"]
                                           ELSE Absent]

InitDisc ==
    /\ InitUndiscovered
    /\ ptp \in PtpRegisters
    /\ mapBudget = 0

\* Discovery alone.
NextDisc == \E t \in ThreadIds : GetPtpInterface(t)

SpecDisc == InitDisc /\ [][NextDisc]_vars

\* Discovery followed by ReadPublic, on the register values that separate the
\* rules of GetPtpInterface.
PtpRegistersSmall ==
    { PtpRegs(p, ty, v, c, f, b, cv) :
        p \in {0, 255}, ty \in {0, 1, 2, 15}, v \in PtpBits,
        c \in PtpBits, f \in PtpBits, b \in PtpBits, cv \in {2, 3} }

InitPtp ==
    /\ InitUndiscovered
    /\ ptp \in PtpRegistersSmall
    /\ mapBudget = 0

StepPtp(t) ==
    \/ GetPtpInterface(t)
    \/ Step(t)

NextPtp == \E t \in ThreadIds : StepPtp(t)

SpecPtp == InitPtp /\ [][NextPtp]_vars


----------------------------------------------------------------------------
(* Properties.                                                             *)

Returned(s) == s.pc \in {"returned", "rp_decode", "rp_decoded", "rp_done"}
\* ReadPublic went on to decode the response.
Decoding(s) == s.pc \in {"rp_decode", "rp_decoded"}
OnCrb == cachedInterface = "PtpInterfaceCrb"
OnTis == cachedInterface \in {"PtpInterfaceFifo", "PtpInterfaceTis"}

\* What the device's response declares (big-endian tag and param_size).
RespTag == (resp[1] * 256) + resp[2]
RespParamSize == (resp[5] * 256) + resp[6]
Header == 0..(RespHeaderSize - 1)
HeaderDrained(s) == Header \subseteq s.devRead

GoIdleWrite ==
    [reg |-> "CrbControlRequest", off |-> 0,
     val |-> PTP_CRB_CONTROL_AREA_REQUEST_GO_IDLE, hi |-> 0, len |-> 4]
ReadyWrite ==
    [reg |-> "Status", off |-> 0, val |-> TIS_PC_STS_READY, hi |-> 0, len |-> 1]

\* C1: whenever CrbCommand has returned, on any of its exits, the last
\* register write it performed is goIdle to CtrlRequest.
C1_CrbLastWriteGoIdle ==
    \A t \in ThreadIds :
        OnCrb /\ Returned(th[t]) => th[t].lastWrite = GoIdleWrite

\* CrbCommand has returned through an error exit (caller buffer too small).
C1_Witness ==
    \E t \in ThreadIds :
        /\ OnCrb /\ th[t].pc = "returned"
        /\ th[t].status = STATUS_BUFFER_TOO_SMALL
        /\ th[t].lastWrite = GoIdleWrite

\* C2: whenever TisCommand has returned, the last register write it performed
\* is STS_READY to Status.
C2_TisLastWriteReady ==
    \A t \in ThreadIds :
        OnTis /\ Returned(th[t]) => th[t].lastWrite = ReadyWrite

\* TisCommand has returned after the command was started with STS_GO.
C2_Witness ==
    \E t \in ThreadIds :
        /\ OnTis /\ th[t].pc = "returned"
        /\ <<"Status", TIS_PC_STS_GO, 1>> \in th[t].wrote
        /\ th[t].lastWrite = ReadyWrite

\* C3: whenever a transport has returned STATUS_SUCCESS, *sizeOut is the
\* param_size the response declares and every byte bufferOut[0..param_size)
\* was read from the device after the TPM signalled completion.
C3_SuccessIsFreshResponse ==
    \A t \in ThreadIds :
        (OnCrb \/ OnTis) /\ Returned(th[t]) /\ th[t].status = STATUS_SUCCESS
            => /\ th[t].sizeOut = RespParamSize
               /\ (0..(RespParamSize - 1)) \subseteq th[t].devRead
               /\ ~th[t].earlyRead

\* "In flight": the call has written a register and has not returned yet.
InFlight(s) == s.lastWrite # NoWrite /\ ~Returned(s)

\* C4: submit is serialized, so two callers are never both in flight.
C4_SubmitSerialized ==
    \A t1, t2 \in ThreadIds :
        t1 # t2 => ~(InFlight(th[t1]) /\ InFlight(th[t2]))

\* C5: S0/S1 is re-entered at most RETRY_CNT_MAX times, and a call whose
\* S0/S1 waits failed RETRY_CNT_MAX times returns DeviceBusy.
C5_RetriesBounded ==
    \A t \in ThreadIds :
        OnCrb =>
            /\ th[t].reentries <= RETRY_CNT_MAX
            /\ Returned(th[t]) /\ th[t].waitFails >= RETRY_CNT_MAX
                  => th[t].status = STATUS_DEVICE_BUSY

\* C6: a CrbCommand whose wait for the start bit timed out has written 1 and
\* then 0 to CtrlCancel and returns DeviceBusy.
C6_CrbTimeoutCancels ==
    \A t \in ThreadIds :
        OnCrb /\ Returned(th[t]) /\ "crb_s3_wait" \in th[t].timedOut
            => /\ <<"CrbControlCancel", PTP_CRB_CONTROL_CANCEL, 4>> \in th[t].wrote
               /\ <<"CrbControlCancel", 0, 4>> \in th[t].wrote
               /\ th[t].status = STATUS_DEVICE_BUSY

\* C7: a TisCommand that never saw VALID and DATA after STS_GO has written
\* STS_CANCEL as a 32-bit value exactly once and nothing else 32 bits wide to
\* Status, returns DeviceBusy, and its last write is STS_READY.
C7_TisTimeoutCancels ==
    \A t \in ThreadIds :
        (OnTis /\ Returned(th[t])
           /\ "tis_go_wait" \in th[t].timedOut /\ ~th[t].completed)
            => /\ th[t].nCancel = 1
               /\ \A w \in th[t].wrote :
                     w[1] = "Status" /\ w[3] = 4 => w[2] = TIS_PC_STS_CANCEL
               /\ th[t].status = STATUS_DEVICE_BUSY
               /\ th[t].lastWrite = ReadyWrite

\* C8: a TisCommand whose wait for VALID set and EXPECT clear timed out
\* returns BufferTooSmall and has never written STS_GO.
C8_TisExpectTimeout ==
    \A t \in ThreadIds :
        OnTis /\ Returned(th[t]) /\ "tis_expect_wait" \in th[t].timedOut
            => /\ th[t].status = STATUS_BUFFER_TOO_SMALL
               /\ <<"Status", TIS_PC_STS_GO, 1>> \notin th[t].wrote

\* The response declares more bytes than the caller's buffer holds, and the
\* call has returned after draining the header.
Oversized(s) == Returned(s) /\ HeaderDrained(s) /\ RespParamSize > s.cap

\* C9 as stated: when param_size exceeds the capacity, the transport returns
\* BufferTooSmall, has written only bufferOut[0..9] and leaves *sizeOut alone.
C9_Original ==
    \A t \in ThreadIds :
        (OnCrb \/ OnTis) /\ Oversized(th[t])
            => /\ th[t].status = STATUS_BUFFER_TOO_SMALL
               /\ th[t].devRead = Header
               /\ th[t].sizeOut = th[t].cap

\* C9: when param_size exceeds the capacity, the transport has written only
\* bufferOut[0..9] and leaves *sizeOut alone; it returns BufferTooSmall unless
\* the tag is TPM_ST_RSP_COMMAND, which is tested first and gives Unsupported.
C9_TooSmallAfterTag ==
    \A t \in ThreadIds :
        (OnCrb \/ OnTis) /\ Oversized(th[t])
            => /\ th[t].status =
                    IF RespTag = TPM_ST_RSP_COMMAND
                    THEN STATUS_NOT_SUPPORTED ELSE STATUS_BUFFER_TOO_SMALL
               /\ th[t].devRead = Header
               /\ th[t].sizeOut = th[t].cap

\* An oversized response without the legacy tag was refused.
C9_Witness ==
    \E t \in ThreadIds :
        /\ (OnCrb \/ OnTis) /\ Oversized(th[t])
        /\ RespTag # TPM_ST_RSP_COMMAND
        /\ th[t].status = STATUS_BUFFER_TOO_SMALL

\* C10: when the drained header carries tag TPM_ST_RSP_COMMAND, no byte beyond
\* the header is ever read, submit returns Unsupported, and ReadPublic hands
\* Unsupported to its caller without decoding.
C10_LegacyTagUnsupported ==
    \A t \in ThreadIds :
        ((OnCrb \/ OnTis) /\ HeaderDrained(th[t])
           /\ RespTag = TPM_ST_RSP_COMMAND)
            => /\ th[t].devRead = Header
               /\ Returned(th[t]) => th[t].status = STATUS_NOT_SUPPORTED
               /\ ~Decoding(th[t])
               /\ th[t].pc = "rp_done" => th[t].rpStatus = STATUS_NOT_SUPPORTED

\* ReadPublic has returned Unsupported for a legacy-tagged response.
C10_Witness ==
    \E t \in ThreadIds :
        /\ (OnCrb \/ OnTis) /\ HeaderDrained(th[t])
        /\ RespTag = TPM_ST_RSP_COMMAND
        /\ th[t].pc = "rp_done"
        /\ th[t].rpStatus = STATUS_NOT_SUPPORTED


\* A mapping was refused during the call.
MapRefused == mapBudget < MaxMapFail

\* C11: a submit during which an MMIO mapping was refused does not return
\* success.
C11_MapFailureSurfaced ==
    \A t \in ThreadIds :
        (OnCrb \/ OnTis) /\ Returned(th[t]) /\ MapRefused
            => th[t].status # STATUS_SUCCESS

\* C12: a status other than success returned by the transport is returned by
\* ReadPublic unchanged, and the receive buffer is not decoded.
C12_FailurePassedThrough ==
    \A t \in ThreadIds :
        Returned(th[t]) /\ th[t].status # STATUS_SUCCESS
            => /\ ~Decoding(th[t])
               /\ th[t].pc = "rp_done" => th[t].rpStatus = th[t].status

\* The response code the device's response carries (big-endian).
RespCode == (resp[9] * 256) + resp[10]

\* C13: after the transport returned success, ReadPublic gives BufferTooSmall
\* for a response shorter than 10 bytes; otherwise response code 0 goes on to
\* decoding, TPM_RC_SEQUENCE gives InvalidParameter and any other code gives
\* DeviceBusy.
C13_ResponseCodeOutcome ==
    \A t \in ThreadIds :
        (th[t].status = STATUS_SUCCESS /\ th[t].pc \in {"rp_decode", "rp_decoded", "rp_done"})
            => IF RespParamSize < RespHeaderSize
                 THEN th[t].pc = "rp_done" /\ th[t].rpStatus = STATUS_BUFFER_TOO_SMALL
               ELSE IF RespCode = TPM_RC_SUCCESS
                 THEN Decoding(th[t])
               ELSE IF RespCode = TPM_RC_SEQUENCE
                 THEN th[t].pc = "rp_done" /\ th[t].rpStatus = STATUS_INVALID_PARAMETER
               ELSE th[t].pc = "rp_done" /\ th[t].rpStatus = STATUS_DEVICE_BUSY

\* ReadPublic has turned TPM_RC_SEQUENCE into InvalidParameter.
C13_Witness ==
    \E t \in ThreadIds :
        /\ th[t].status = STATUS_SUCCESS /\ th[t].pc = "rp_done"
        /\ RespParamSize >= RespHeaderSize /\ RespCode = TPM_RC_SEQUENCE
        /\ th[t].rpStatus = STATUS_INVALID_PARAMETER

\* The steps of the two transports, by the position of the caller.
CrbPcs ==
    { "crb_s0", "crb_s0_chk", "crb_s0_wait", "crb_s1", "crb_s1_req_chk", "crb_s1_req_wait",
      "crb_s1_sts_chk", "crb_s1_sts_wait", "crb_s2", "crb_s2_high", "crb_s2_low",
      "crb_s2_raddr", "crb_s2_rsize", "crb_s2_size", "crb_s3", "crb_s3_chk", "crb_s3_wait",
      "crb_s4_chk", "crb_s4_hdr", "crb_s4_rest", "crb_cancel_chk", "crb_cancel_wait",
      "crb_goidle" }
TisPcs ==
    { "tis_prepare", "tis_prep_chk", "tis_prep_wait", "tis_send_burst", "tis_send_bchk",
      "tis_send_bytes", "tis_expect_chk", "tis_expect_wait", "tis_go", "tis_go_chk",
      "tis_go_wait", "tis_hdr_burst", "tis_hdr_bchk", "tis_hdr_bytes", "tis_hdr_check",
      "tis_rest", "tis_rest_burst", "tis_rest_bchk", "tis_rest_bytes", "tis_cancel_chk",
      "tis_cancel_wait", "tis_exit" }
TisRegs == {"Status", "DataFifo"}
InsideCall(s) == s.pc \notin {"init", "idle", "absent"}

\* C14: submit dispatches on the discovered kind.  On kind None the call
\* touches no register and both the transport and ReadPublic return
\* STATUS_DEVICE_NOT_CONNECTED; on kind Crb only the steps and registers of
\* the CRB protocol are used; on Fifo or Tis only those of the TIS protocol.
\* A presence byte of 0xFF leaves the kind None.
C14_DispatchOnKind ==
    /\ (ptp.status # "none" /\ ptp.presence = 255) => cachedInterface = "PtpInterfaceNull"
    /\ \A t \in ThreadIds :
        LET s == th[t] IN
        /\ s.pc \in CrbPcs => cachedInterface = "PtpInterfaceCrb"
        /\ s.pc \in TisPcs => cachedInterface \in {"PtpInterfaceFifo", "PtpInterfaceTis"}
        /\ cachedInterface = "PtpInterfaceCrb" => \A w \in s.wrote : w[1] \notin TisRegs
        /\ cachedInterface \in {"PtpInterfaceFifo", "PtpInterfaceTis"}
            => \A w \in s.wrote : w[1] \in TisRegs
        /\ (cachedInterface = "PtpInterfaceNull" /\ InsideCall(s))
            => /\ s.pc \in {"submit", "returned", "rp_done"}
               /\ s.wrote = {}
               /\ s.devRead = {}
               /\ s.lastWrite = NoWrite
               /\ s.pc \in {"returned", "rp_done"} => s.status = STATUS_DEVICE_NOT_CONNECTED
               /\ s.pc = "rp_done" => s.rpStatus = STATUS_DEVICE_NOT_CONNECTED

\* ReadPublic has returned on a device whose presence byte read 0xFF.
C14_Witness ==
    \E t \in ThreadIds :
        /\ ptp.presence = 255
        /\ ptp.status = "false"
        /\ cachedInterface = "PtpInterfaceNull"
        /\ th[t].pc = "rp_done"
        /\ th[t].rpStatus = STATUS_DEVICE_NOT_CONNECTED

\* The rule chain of the specification: the first rule that matches decides.
RuleChain(r) ==
    IF r.InterfaceType = 1 /\ r.InterfaceVersion = 1 /\ r.CapCRB = 1
    THEN [kind |-> "PtpInterfaceCrb", ok |-> r.CapCRBIdleBypass # 255]
    ELSE IF r.InterfaceType = 0 /\ r.InterfaceVersion = 0 /\ r.CapFIFO = 1
            /\ r.CapabilityVersion = 3
    THEN [kind |-> "PtpInterfaceFifo", ok |-> TRUE]
    ELSE IF r.InterfaceType = 15
    THEN [kind |-> "PtpInterfaceTis", ok |-> TRUE]
    ELSE [kind |-> "PtpInterfaceNull", ok |-> FALSE]

\* C15: for every value of the InterfaceId and InterfaceCapability fields,
\* on a present device, GetPtpInterface leaves the kind and returns the
\* success or failure of the ordered rule chain CRB, FIFO, TIS, failure; on
\* the CRB rule idle_bypass is the CapCRBIdleBypass field.
C15_DiscoveryIsRuleChain ==
    (ptp.status # "none" /\ ptp.presence # 255)
    => /\ cachedInterface = RuleChain(ptp).kind
       /\ (ptp.status = "true") = RuleChain(ptp).ok
       /\ cachedInterface = "PtpInterfaceCrb" => idleByPassState = ptp.CapCRBIdleBypass

\* Discovery has run on a FIFO device whose InterfaceCapability is not PTP,
\* and on no rule matching it failed.
C15_Witness ==
    /\ ptp.status = "false"
    /\ ptp.presence # 255
    /\ ptp.InterfaceType = 0
    /\ ptp.InterfaceVersion = 0
    /\ ptp.CapFIFO = 1
    /\ ptp.CapabilityVersion # 3
    /\ cachedInterface = "PtpInterfaceNull"

\* ReadPublic has returned from the decoding of the response.
Decoded(s) == s.pc = "rp_decoded"

\* The length the fields of the frame add up to.
DeclaredLength(w) ==
    RespHeaderSize + 2 + Len(WirePublic(w)) + 2 + w.name + 2 + w.qname

\* C16: ReadPublic returns success only if the length the transport reported
\* equals 10 + 2 + outPublic_size + 2 + name_size + 2 + qname_size of the
\* frame; on a mismatch it returns STATUS_DEVICE_BUSY and has written
\* neither name nor qualifiedName.
C16_LengthAgreement ==
    \A t \in ThreadIds :
        Decoded(th[t])
            => /\ th[t].rpStatus = STATUS_SUCCESS => th[t].sizeOut = DeclaredLength(wire)
               /\ th[t].sizeOut # DeclaredLength(wire)
                    => /\ th[t].rpStatus = STATUS_DEVICE_BUSY
                       /\ th[t].out.name = NoBuffer
                       /\ th[t].out.qualifiedName = NoBuffer
                       /\ th[t].dec.copies = {}

\* A frame with one byte after the qualified name was refused.
C16_Witness ==
    \E t \in ThreadIds :
        /\ Decoded(th[t])
        /\ wire.tail = 1
        /\ th[t].sizeOut = DeclaredLength(wire) + 1
        /\ th[t].rpStatus = STATUS_DEVICE_BUSY

\* Bytes the destination of a copy can hold.
Capacity(dest, type) ==
    CASE dest = "outPublic" -> 2 + sizeof_TPMT_PUBLIC
      [] dest = "authPolicy" -> sizeof_TPMU_HA
      [] dest = "unique.x" -> IF type = TPM_ALG_RSA THEN MAX_RSA_KEY_BYTES
                              ELSE IF type = TPM_ALG_ECC THEN MAX_ECC_KEY_BYTES
                              ELSE sizeof_TPMU_HA
      [] dest = "unique.y" -> MAX_ECC_KEY_BYTES
      [] OTHER -> sizeof_TPMU_NAME

\* No copy of the decoder is longer than its destination.
CopiesFit ==
    \A t \in ThreadIds :
        \A c \in th[t].dec.copies : c[2] <= Capacity(c[1], th[t].out.type)

\* C17: a frame with a length-prefixed field above its maximum yields
\* STATUS_DEVICE_BUSY, and no copy writes more than its destination holds.
C17_OversizeIsDeviceBusy ==
    /\ CopiesFit
    /\ \A t \in ThreadIds :
        (Decoded(th[t]) /\ wire \in OversizeCases) => th[t].rpStatus = STATUS_DEVICE_BUSY

\* The decoded outputs equal the fields the frame was built from.
FieldsMatch(o, w) ==
    /\ o.type = w.type
    /\ o.nameAlg = w.nameAlg
    /\ o.objectAttributes = Reverse4(w.attributes)
    /\ o.authPolicy = [size |-> w.auth, buffer |-> FieldBytes(11, w.auth)]
    /\ \A i \in 1..Len(w.parms) :
        w.parms[i][1] >= 0
            => /\ w.parms[i][1] \in DOMAIN o.parameters
               /\ o.parameters[w.parms[i][1]] = w.parms[i][2]
    /\ o.unique.x = [size |-> w.unique[1], buffer |-> FieldBytes(23, w.unique[1])]
    /\ Len(w.unique) = 2
        => o.unique.y = [size |-> w.unique[2], buffer |-> FieldBytes(37, w.unique[2])]
    /\ o.name = [size |-> w.name, buffer |-> WireName(w)]
    /\ o.qualifiedName = [size |-> w.qname, buffer |-> WireQualifiedName(w)]

\* Where the unique field starts in the frame.
WireUniqueOffset(w) == AuthPolicyOffset + 2 + w.auth + (2 * Len(w.parms))

\* C18: every well-formed frame of a defined type (KEYEDHASH with HMAC or XOR,
\* SYMCIPHER, RSA, ECC) decodes with STATUS_SUCCESS and every decoded field
\* equal to the wire's, the unique field of KEYEDHASH being read right after
\* the scheme and its one (HMAC) or two (XOR) words; a frame of an undefined
\* type yields STATUS_NOT_SUPPORTED.
C18_DecoderTotal ==
    \A t \in ThreadIds :
        Decoded(th[t])
            => /\ wire \in WellFormed
                    => /\ th[t].rpStatus = STATUS_SUCCESS
                       /\ FieldsMatch(th[t].out, wire)
                       /\ th[t].dec.uniqueAt = WireUniqueOffset(wire)
               /\ wire.type \in UndefinedTypes => th[t].rpStatus = STATUS_NOT_SUPPORTED

\* C19: a well-formed RSA frame delivered with success decodes with
\* STATUS_SUCCESS, type RSA, unique.rsa.size and bytes equal to the wire's
\* modulus, name and qualifiedName equal to the wire's in size and bytes.
C19_RsaDecoded ==
    \A t \in ThreadIds :
        (Decoded(th[t]) /\ wire \in WellFormedRsa)
            => /\ th[t].rpStatus = STATUS_SUCCESS
               /\ th[t].out.type = TPM_ALG_RSA
               /\ th[t].out.unique.x.size = wire.unique[1]
               /\ th[t].out.unique.x.buffer = FieldBytes(23, wire.unique[1])
               /\ th[t].out.name = [size |-> wire.name, buffer |-> WireName(wire)]
               /\ th[t].out.qualifiedName
                    = [size |-> wire.qname, buffer |-> WireQualifiedName(wire)]

\* An RSA frame with a 256-byte modulus and names of different lengths was
\* decoded.
C19_Witness ==
    \E t \in ThreadIds :
        /\ Decoded(th[t])
        /\ wire \in WellFormedRsa
        /\ wire.unique = <<256>>
        /\ wire.name = 66 /\ wire.qname = 34
        /\ th[t].rpStatus = STATUS_SUCCESS
        /\ th[t].out.unique.x.size = 256

\* The first 16-bit word of the exponent on the wire, and where it starts.
WireExponentWord(w) == w.parms[Len(w.parms) - 1][2]
WireExponentOffset(w) == AuthPolicyOffset + 2 + w.auth + (2 * (Len(w.parms) - 2))

\* C20: the decoded RSA exponent is the big-endian 16-bit value of the first
\* two of its four wire bytes, and the unique field is read from 4 bytes
\* after the start of the exponent.
C20_ExponentWidth ==
    \A t \in ThreadIds :
        (Decoded(th[t]) /\ wire \in WellFormedRsa)
            => /\ th[t].dec.expAt = WireExponentOffset(wire)
               /\ th[t].out.parameters[14] = WireExponentWord(wire)
               /\ th[t].out.parameters[16] = 0
               /\ th[t].dec.uniqueAt = th[t].dec.expAt + 4
               /\ th[t].out.unique.x.size = wire.unique[1]

\* An exponent of 65537 on the wire (00 01 00 01) was decoded as 1.
C20_Witness ==
    \E t \in ThreadIds :
        /\ Decoded(th[t])
        /\ wire \in WellFormedRsa
        /\ wire.parms[Len(wire.parms)] = <<-1, 1>>
        /\ WireExponentWord(wire) = 1
        /\ th[t].out.parameters[14] = 1
        /\ th[t].dec.uniqueAt = WireExponentOffset(wire) + 4

\* The fixed part of the request: tag 0x8001, param_size 14, command code
\* 0x00000173, each big-endian.
RequestPrefix == <<128, 1, 0, 0, 0, 14, 0, 0, 1, 115>>

\* C21: for every object handle the request handed to the transport is 14
\* bytes: 80 01, 00 00 00 0E, 00 00 01 73, then the handle with its most
\* significant byte first.
C21_RequestFrame ==
    \A t \in ThreadIds :
        InsideCall(th[t])
            => /\ Len(th[t].sendBuffer) = 14
               /\ sizeIn = 14
               /\ SubSeq(th[t].sendBuffer, 1, 10) = RequestPrefix
               /\ \A k \in 1..4 : th[t].sendBuffer[10 + k] = th[t].objectHandle[5 - k]

\* The request for handle 0x81010001 was handed to the transport.
C21_Witness ==
    \E t \in ThreadIds :
        /\ th[t].pc = "crb_s0"
        /\ th[t].objectHandle = <<1, 0, 1, 129>>
        /\ th[t].sendBuffer = <<128, 1, 0, 0, 0, 14, 0, 0, 1, 115, 129, 1, 0, 1>>

\* C22: for every 16-bit value and every 32-bit value, decoding the
\* big-endian encoding gives the value back, and the encoding is the host
\* (little-endian) representation with its bytes reversed.
C22_ByteOrderRoundTrip ==
    \A t \in ThreadIds :
        th[t].pc = "codec_done"
            => /\ th[t].codec.dec16 = wire.u16
               /\ th[t].codec.enc16 = <<wire.u16 \div 256, wire.u16 % 256>>
               /\ th[t].codec.dec32 = wire.u32
               /\ th[t].codec.enc32 = <<wire.u32[4], wire.u32[3], wire.u32[2], wire.u32[1]>>

\* 0x0173 was encoded as 01 73 and decoded back.
C22_Witness ==
    \E t \in ThreadIds :
        /\ th[t].pc = "codec_done"
        /\ wire.u16 = 371
        /\ th[t].codec.enc16 = <<1, 115>>
        /\ th[t].codec.dec16 = 371

\* C23: mappings are acquired per access.  Whenever mmio::Read or mmio::Write
\* has returned, with success or with a refused mapping, the caller holds no
\* mapping; at no point of a command did it hold more than one; and it holds
\* none when submit has returned.
C23_MappingPerAccess ==
    \A t \in ThreadIds :
        /\ th[t].mapped = 0
        /\ th[t].maxMapped <= 1
        /\ (Returned(th[t]) => th[t].mapped = 0)

\* A submit returned after accesses that mapped and one whose mapping was refused.
C23_Witness ==
    \E t \in ThreadIds :
        /\ Returned(th[t])
        /\ th[t].maxMapped = 1
        /\ th[t].log # <<>>
        /\ MapRefused

\* The statuses the transports document as their results.
TransportStatuses ==
    {STATUS_SUCCESS, STATUS_DEVICE_BUSY, STATUS_NOT_SUPPORTED, STATUS_BUFFER_TOO_SMALL}

\* The transport returned to SubmitCommand.
TransportReturned(s) == s.pc = "returned" /\ cachedInterface # "PtpInterfaceNull"

\* C24: CrbCommand and TisCommand return only STATUS_SUCCESS,
\* STATUS_DEVICE_BUSY, STATUS_NOT_SUPPORTED or STATUS_BUFFER_TOO_SMALL, and
\* never STATUS_TIMEOUT or STATUS_UNSUCCESSFUL.
C24_TransportStatuses ==
    \A t \in ThreadIds :
        TransportReturned(th[t]) => th[t].status \in TransportStatuses

\* CrbCommand returned STATUS_TIMEOUT.
C24_CrbNoTimeout ==
    \A t \in ThreadIds :
        (TransportReturned(th[t]) /\ OnCrb) => th[t].status # STATUS_TIMEOUT

\* TisCommand returned STATUS_TIMEOUT.
C24_TisTimeout ==
    \A t \in ThreadIds :
        (TransportReturned(th[t]) /\ OnTis) => th[t].status # STATUS_TIMEOUT

\* Neither transport returned a status outside the documented ones other
\* than STATUS_TIMEOUT.
C24_OnlyTimeoutExtra ==
    \A t \in ThreadIds :
        TransportReturned(th[t]) => th[t].status \in TransportStatuses \cup {STATUS_TIMEOUT}

\* The places where a transport tests the status a polling helper returned.
CrbCheckPcs == {"crb_s0_chk", "crb_s1_req_chk", "crb_s1_sts_chk", "crb_s3_chk", "crb_cancel_chk"}
CheckPcs == CrbCheckPcs \cup TisCheckPcs

\* Where the failure branch of each test leads.
TimeoutBranch(pc) ==
    CASE pc \in {"crb_s0_chk", "crb_s1_req_chk", "crb_s1_sts_chk"} -> {"crb_s0", "crb_goidle"}
      [] pc = "crb_s3_chk" -> {"crb_cancel_wait"}
      [] pc = "crb_cancel_chk" -> {"crb_goidle"}
      [] pc = "tis_prep_chk" -> {"returned"}
      [] pc = "tis_go_chk" -> {"tis_cancel_wait"}
      [] OTHER -> {"tis_exit"}

\* C25: whenever a polling helper has returned STATUS_TIMEOUT, the caller
\* classifies it as a failure: the transport takes its timeout branch and
\* does not advance to the step after the wait.
C25_TimeoutIsFailure ==
    [][\A t \in ThreadIds :
          (th[t].pc \in CheckPcs /\ th[t].status = STATUS_TIMEOUT)
              => th'[t].pc \in TimeoutBranch(th[t].pc)]_vars

\* The only statuses a polling helper hands to a test are success and timeout.
C25_HelperStatuses ==
    \A t \in ThreadIds :
        th[t].pc \in CheckPcs => th[t].status \in {STATUS_SUCCESS, STATUS_TIMEOUT}

\* No test that sees STATUS_TIMEOUT takes its failure branch.
C25_NeverFailureBranch ==
    [][\A t \in ThreadIds :
          (th[t].pc \in CheckPcs /\ th[t].status = STATUS_TIMEOUT)
              => th'[t].pc \notin TimeoutBranch(th[t].pc)]_vars

\* C26: every wait of a submit is a bounded poll, so whatever the hardware
\* shows (a burst count that stays zero, status bits that never change) a
\* call that entered CrbCommand or TisCommand returns.
C26_SubmitReturns ==
    \A t \in ThreadIds : (th[t].pc = "submit") ~> Returned(th[t])

\* The same for the calls that go to CrbCommand.
C26_CrbReturns ==
    \A t \in ThreadIds : (th[t].pc = "submit" /\ OnCrb) ~> Returned(th[t])

\* Each single wait is a bounded poll: the time waited inside a polling
\* helper never exceeds the helper's timeout.
C26_PollsBounded ==
    \A t \in ThreadIds :
        /\ th[t].pc \in CrbWaitPcs => th[t].waitTime <= CrbWait(th[t].pc).timeOut
        /\ th[t].pc \in TisWaitPcs => th[t].waitTime <= TisWait(th[t].pc).timeOut
        /\ th[t].pc \in BurstPcs => th[t].waitTime < TIS_TIMEOUT_D

\* Positions of the log of register writes.
LogAt(s, reg) == { k \in 1..Len(s.log) : s.log[k][1] = reg }
CmdReadyAt(s) ==
    { k \in 1..Len(s.log) :
        s.log[k] = <<"CrbControlRequest", 0, PTP_CRB_CONTROL_AREA_REQUEST_COMMAND_READY>> }
\* The command went to the device: a DataBuffer byte or start was written.
CrbLoadAt(s) == LogAt(s, "CrbDataBuffer") \cup LogAt(s, "CrbControlStart")

\* A wait returns success only on a read that showed the bits it waits for,
\* so a wait the call is past and that did not time out observed them.
ObservedReady(s) == "crb_s1_req_wait" \notin s.timedOut
ObservedNotIdle(s) == "crb_s1_sts_wait" \notin s.timedOut

\* C27: in CrbCommand no command byte is written to DataBuffer and start is
\* not written unless, after cmdReady was written, CtrlRequest was observed
\* with cmdReady clear and then CtrlStatus was observed with tpmIdle clear.
C27_LoadAfterReadyObserved ==
    \A t \in ThreadIds :
        (OnCrb /\ CrbLoadAt(th[t]) # {})
            => /\ \E r \in CmdReadyAt(th[t]) : \A k \in CrbLoadAt(th[t]) : r < k
               /\ ObservedReady(th[t])
               /\ ObservedNotIdle(th[t])

\* The order of the writes alone: cmdReady is written, and both waits of
\* step 1 have returned, before the first DataBuffer byte or start is written.
C27_LoadAfterReadyWritten ==
    \A t \in ThreadIds :
        (OnCrb /\ CrbLoadAt(th[t]) # {})
            => /\ \E r \in CmdReadyAt(th[t]) : \A k \in CrbLoadAt(th[t]) : r < k
               /\ th[t].pc \notin {"crb_s0", "crb_s0_wait", "crb_s0_chk", "crb_s1",
                                    "crb_s1_req_wait", "crb_s1_req_chk",
                                    "crb_s1_sts_wait", "crb_s1_sts_chk"}

\* The address and size registers of step 2, and the registers of the command.
StageRegs ==
    <<"CrbControlCommandAddressHigh", "CrbControlCommandAddressLow", "CrbControlCommandSize",
      "CrbControlResponseAddrss", "CrbControlResponseSize">>
CommandRegs == {"CrbDataBuffer"} \cup { StageRegs[k] : k \in 1..Len(StageRegs) }

\* The writes of the log to the registers of R, in the order they were made.
WritesTo(log, R) ==
    LET In(e) == e[1] \in R IN SelectSeq(log, In)

\* The call is past the start write of step 3.
PastStart(s) ==
    s.pc \in {"crb_s3_wait", "crb_s3_chk", "crb_cancel_wait", "crb_cancel_chk",
              "crb_s4_hdr", "crb_s4_chk", "crb_s4_rest"}

\* C28: in every CrbCommand call that reaches step 3, start is written exactly
\* once, after all sizeIn command bytes were written to DataBuffer in index
\* order and after CommandAddrHigh, CommandAddrLow, CommandSize, ResponseAddr
\* and ResponseSize; nothing is written to DataBuffer or to the address and
\* size registers after start, and the command is never started again.
C28_StartOnceAfterLoad ==
    \A t \in ThreadIds :
        LET s == th[t]
            starts == LogAt(s, "CrbControlStart")
        IN  OnCrb =>
              /\ Cardinality(starts) <= 1
              /\ (PastStart(s) => Cardinality(starts) = 1)
              /\ \A k \in starts :
                    LET before == SubSeq(s.log, 1, k - 1)
                        after == SubSeq(s.log, k + 1, Len(s.log))
                        data == WritesTo(before, {"CrbDataBuffer"})
                        stage == WritesTo(before, CommandRegs \ {"CrbDataBuffer"})
                    IN  /\ data = [i \in 1..sizeIn |-> <<"CrbDataBuffer", i - 1, s.sendBuffer[i]>>]
                        /\ [i \in 1..Len(stage) |-> stage[i][1]] = StageRegs
                        /\ WritesTo(after, CommandRegs) = <<>>

\* A call returned success after one start that followed the 14 bytes and
\* the five registers.
C28_Witness ==
    \E t \in ThreadIds :
        /\ OnCrb
        /\ Returned(th[t])
        /\ th[t].status = STATUS_SUCCESS
        /\ Len(th[t].log) >= 21
        /\ th[t].log[21][1] = "CrbControlStart"
        /\ th[t].log[2] = <<"CrbDataBuffer", 0, 128>>
        /\ th[t].log[15] = <<"CrbDataBuffer", 13, 1>>

\* Positions of the STS_GO writes in the log.
GoAt(s) == { k \in 1..Len(s.log) : s.log[k] = <<"Status", 0, TIS_PC_STS_GO>> }

\* The write order of TisCommand around STS_GO, and the reads of DataFifo.
GoOrder(s) ==
    /\ Cardinality(GoAt(s)) <= 1
    /\ \A k \in GoAt(s) :
          /\ WritesTo(SubSeq(s.log, 1, k - 1), {"DataFifo"})
                = [i \in 1..sizeIn |-> <<"DataFifo", i - 1, s.sendBuffer[i]>>]
          /\ WritesTo(SubSeq(s.log, k + 1, Len(s.log)), {"DataFifo"}) = <<>>
    /\ (s.devRead # {} => GoAt(s) # {})

\* The wait before STS_GO returned on a read of Status with VALID set and
\* STS_EXPECT clear.
ObservedValidNoExpect(s) == "tis_expect_wait" \notin s.timedOut

\* C29: in TisCommand STS_GO is written at most once per call, and only after
\* all sizeIn bytes were written to DataFifo and Status was observed with VALID
\* set and STS_EXPECT clear; no DataFifo write follows STS_GO and no DataFifo
\* read precedes it.
C29_GoAfterExpectClear ==
    \A t \in ThreadIds :
        OnTis => /\ GoOrder(th[t])
                 /\ (GoAt(th[t]) # {} => ObservedValidNoExpect(th[t]))

\* The order alone, without the observation of Status.
C29_GoOrder ==
    \A t \in ThreadIds : OnTis => GoOrder(th[t])

\* With every mapping succeeding, a call past step 0 either read CtrlStatus
\* with tpmIdle set or waited for it; the wait observed it unless it timed out.
ObservedIdle(s) == "crb_s0_wait" \notin s.timedOut

\* With the idle check skipped, no register is accessed before the cmdReady
\* write: an access was made only if the log starts with that write.
ReadyIsFirstAccess(s) ==
    s.maxMapped > 0 => (s.log # <<>> /\ 1 \in CmdReadyAt(s))

\* C30: in CrbCommand with idle_bypass == 0, cmdReady is not written unless
\* CtrlStatus was observed with tpmIdle set; with idle_bypass != 0 the idle
\* check is skipped and the first register access of the call is the
\* cmdReady write.
C30_ReadyAfterIdle ==
    \A t \in ThreadIds :
        OnCrb =>
          /\ ((idleByPassState = 0 /\ CmdReadyAt(th[t]) # {}) => ObservedIdle(th[t]))
          /\ ((idleByPassState # 0) => ReadyIsFirstAccess(th[t]))

\* The half about idle_bypass != 0.
C30_BypassFirstAccess ==
    \A t \in ThreadIds : (OnCrb /\ idleByPassState # 0) => ReadyIsFirstAccess(th[t])

\* With idle_bypass == 0, CtrlStatus is at least read before cmdReady is written.
C30_StatusReadFirst ==
    \A t \in ThreadIds :
        (OnCrb /\ idleByPassState = 0 /\ th[t].pc = "crb_s1") => th[t].maxMapped > 0

\* The send phase of TisCommand, and the states right after it completed.
SendPcs == {"tis_send_burst", "tis_send_bchk", "tis_send_bytes"}
SendCompleted(s) == s.pc \in {"tis_expect_wait", "tis_expect_chk", "tis_go"}

\* C31: in a send phase of TisCommand that completes, exactly sizeIn bytes are
\* written to DataFifo, in buffer order and each once, and between two
\* burst-count reads no more bytes are written than the burst count read last.
C31_SendWithinBurst ==
    \A t \in ThreadIds :
        OnTis =>
          /\ ((th[t].pc \in SendPcs \/ SendCompleted(th[t])) => th[t].credit >= 0)
          /\ (th[t].pc \in SendPcs =>
                \A k \in 1..Len(WritesTo(th[t].log, {"DataFifo"})) :
                    WritesTo(th[t].log, {"DataFifo"})[k]
                        = <<"DataFifo", k - 1, th[t].sendBuffer[k]>>)
          /\ (SendCompleted(th[t]) =>
                WritesTo(th[t].log, {"DataFifo"})
                    = [i \in 1..sizeIn |-> <<"DataFifo", i - 1, th[t].sendBuffer[i]>>])

\* The 14 bytes went out in bursts of 5, 5 and 4, one byte of the last grant unused.
C31_Witness ==
    \E t \in ThreadIds :
        /\ OnTis
        /\ th[t].pc = "tis_expect_wait"
        /\ th[t].credit = 1
        /\ Len(WritesTo(th[t].log, {"DataFifo"})) = 14

\* The response drain of TisCommand: the header phase, then the remainder.
HeaderPcs == {"tis_hdr_burst", "tis_hdr_bchk", "tis_hdr_bytes", "tis_hdr_check"}
RestPcs == {"tis_rest", "tis_rest_burst", "tis_rest_bchk", "tis_rest_bytes"}
Drained(s) == s.pc \in HeaderPcs \cup RestPcs \cup {"tis_exit", "returned"}

\* C32: during the response drain of TisCommand the bytes read from DataFifo
\* never exceed the sum of the burst counts obtained during the drain; the
\* burst count carried from the header phase into the remainder is never
\* more than what was granted and not yet consumed.
C32_DrainWithinBurst ==
    \A t \in ThreadIds :
        (OnTis /\ Drained(th[t])) => /\ th[t].credit >= 0
                                     /\ th[t].burstCount <= th[t].credit

\* The header phase by itself stays within the grants.
C32_HeaderWithinBurst ==
    \A t \in ThreadIds :
        (OnTis /\ th[t].pc \in HeaderPcs) => th[t].credit >= 0

\* The first half alone: the bytes read stay within the grants.
C32_ReadsWithinGrants ==
    \A t \in ThreadIds : (OnTis /\ Drained(th[t])) => th[t].credit >= 0

\* The drain overruns the grants by one byte at most, and inside the drain
\* the local burstCount is one more than the balance at most.
C32_OverrunAtMostOne ==
    \A t \in ThreadIds :
        OnTis => /\ (Drained(th[t]) => th[t].credit >= -1)
                 /\ (th[t].pc \in HeaderPcs \cup RestPcs
                        => th[t].burstCount <= th[t].credit + 1)

\* The scripted readings of BurstCount, combined little-endian, and the
\* polls that showed a non-zero value.
ShownValue(k) == wire.polls[k][1] + (256 * wire.polls[k][2])
NonZeroPolls == { k \in 1..BurstWindow : ShownValue(k) # 0 }

\* C33: TisReadBurstCount combines the bytes at BurstCount and BurstCount + 1
\* little-endian; it returns success with *burstCount = byte0 + 256 * byte1 at
\* the first poll whose value is non-zero, returns STATUS_TIMEOUT exactly when
\* every poll of the TIS_TIMEOUT_D window showed zero, and never returns
\* success with a zero burst count.
C33_BurstCountRead ==
    \A t \in ThreadIds :
        (wire.type = "burst" /\ th[t].pc = "tis_send_bchk") =>
          /\ (NonZeroPolls # {} =>
                /\ th[t].status = STATUS_SUCCESS
                /\ \E k \in NonZeroPolls :
                      /\ \A j \in NonZeroPolls : k <= j
                      /\ th[t].burstCount = ShownValue(k))
          /\ (NonZeroPolls = {} => th[t].status = STATUS_TIMEOUT /\ th[t].burstCount = 0)
          /\ (th[t].status = STATUS_SUCCESS => th[t].burstCount # 0)
          /\ (th[t].status = STATUS_TIMEOUT => NonZeroPolls = {})

\* The first poll showed zero, the second 03 01: success with 259.
C33_Witness ==
    \E t \in ThreadIds :
        /\ wire.type = "burst"
        /\ th[t].pc = "tis_send_bchk"
        /\ wire.polls[1] = <<0, 0>>
        /\ wire.polls[2] = <<3, 1>>
        /\ th[t].status = STATUS_SUCCESS
        /\ th[t].burstCount = 259

\* The scripted wait: the polls whose mapped read showed the awaited bits.
SatisfiedAt(k) ==
    /\ wire.polls[k][2]
    /\ BitAnd(wire.polls[k][1], ScriptedWait.bitSet) = ScriptedWait.bitSet
    /\ BitAnd(wire.polls[k][1], ScriptedWait.bitClear) = 0
SatisfiedPolls == { k \in 1..WaitWindow(ScriptedWait.timeOut) : SatisfiedAt(k) }
WaitPcs == CrbWaitPcs \cup TisWaitPcs
\* Polls made so far by the helper a thread is in.
PollsMade(s) == s.waitTime \div PollStep

\* C34: CrbWaitRegisterBits and TisWaitRegisterBits make at most
\* ceil(timeOut / 30) polls; they return success at the first poll whose value
\* has all bits of bitSet set and all bits of bitClear clear, return
\* STATUS_TIMEOUT when no poll did (also when every mapping was refused), and
\* write no register.
C34_WaitHelper ==
    /\ [](\A t \in ThreadIds :
            wire.type = "wait" =>
              /\ (th[t].pc \in WaitPcs =>
                    /\ PollsMade(th[t]) <= WaitWindow(ScriptedWait.timeOut)
                    /\ \A k \in 1..PollsMade(th[t]) : ~SatisfiedAt(k))
              /\ (th[t].pc = ScriptedWait.next =>
                    /\ (SatisfiedPolls # {} => th[t].status = STATUS_SUCCESS)
                    /\ (SatisfiedPolls = {} => th[t].status = STATUS_TIMEOUT))
              /\ (th[t].pc # "absent" => Len(th[t].log) = 1))
    /\ [][\A t \in ThreadIds :
            (wire.type = "wait" /\ th[t].pc \in WaitPcs /\ th'[t].pc = ScriptedWait.next) =>
               IF th'[t].status = STATUS_SUCCESS
               THEN /\ PollsMade(th[t]) < WaitWindow(ScriptedWait.timeOut)
                    /\ SatisfiedAt(PollsMade(th[t]) + 1)
               ELSE /\ th'[t].status = STATUS_TIMEOUT
                    /\ PollsMade(th[t]) = WaitWindow(ScriptedWait.timeOut)]_vars

\* TisWaitRegisterBits: the mapping of the first poll was refused, the second
\* poll showed VALID with STS_EXPECT clear, and the helper returned success.
C34_Witness ==
    \E t \in ThreadIds :
        /\ wire.type = "wait"
        /\ th[t].pc = "tis_expect_chk"
        /\ ~wire.polls[1][2]
        /\ wire.polls[2] = <<TIS_PC_VALID, TRUE>>
        /\ th[t].status = STATUS_SUCCESS

\* Every mapping was refused and the helper returned STATUS_TIMEOUT.
C34_AllRefused ==
    \E t \in ThreadIds :
        /\ wire.type = "wait"
        /\ th[t].pc = ScriptedWait.next
        /\ \A k \in 1..WaitWindow(ScriptedWait.timeOut) : ~wire.polls[k][2]
        /\ th[t].status = STATUS_TIMEOUT

\* Discovery has run.
Discovery == ptp.status # "none"

\* C35: the base at which discovery probes the chip is the
\* AddressOfControlArea obtained from the ACPI TPM2 table, the base the
\* transports use for every register access of a command.
C35_DiscoveryBaseIsAcpi ==
    Discovery => ptp.base = tpmBaseAddress

\* Discovery probes at 0xfed40000 whatever the ACPI table reported.
C35_DiscoveryBaseFixed ==
    Discovery => ptp.base = PtpBaseAddress

\* The last write of the call went to ResponseAddr.
WroteResponseAddr(s) == s.lastWrite.reg = "CrbControlResponseAddrss"

\* C36: in step 2 of CrbCommand the 64-bit value written to ResponseAddr is
\* the physical address of DataBuffer, the address that was written as
\* CommandAddrHigh:CommandAddrLow, and the value written to ResponseSize is
\* the value written to CommandSize.
C36_ResponseMirrorsCommand ==
    \A t \in ThreadIds :
        LET s == th[t] IN
        /\ (WroteResponseAddr(s) =>
                /\ s.lastWrite.len = 8
                /\ s.lastWrite.val = CrbDataBufferAddr.lo
                /\ s.lastWrite.hi = CrbDataBufferAddr.hi
                /\ <<"CrbControlCommandAddressLow", s.lastWrite.val, 4>> \in s.wrote
                /\ <<"CrbControlCommandAddressHigh", s.lastWrite.hi, 4>> \in s.wrote)
        /\ \A w \in s.wrote :
              (w[1] = "CrbControlResponseSize" => <<"CrbControlCommandSize", w[2], w[3]>> \in s.wrote)

\* The low half of ResponseAddr is the low half of the DataBuffer address.
C36_LowHalfIsDataBuffer ==
    \A t \in ThreadIds :
        WroteResponseAddr(th[t]) =>
            /\ th[t].lastWrite.len = 8
            /\ th[t].lastWrite.val = CrbDataBufferAddr.lo
            /\ <<"CrbControlCommandAddressLow", th[t].lastWrite.val, 4>> \in th[t].wrote

\* ResponseSize is written with the value of CommandSize.
C36_ResponseSizeIsCommandSize ==
    \A t \in ThreadIds :
        \A w \in th[t].wrote :
            (w[1] = "CrbControlResponseSize" =>
                /\ w[2] = CrbDataBufferSize
                /\ <<"CrbControlCommandSize", w[2], w[3]>> \in th[t].wrote)

\* ResponseAddr was written with a high half taken from beyond the local.
C36_HighHalfDiffers ==
    \E t \in ThreadIds :
        /\ WroteResponseAddr(th[t])
        /\ th[t].lastWrite.hi # CrbDataBufferAddr.hi
        /\ <<"CrbControlResponseSize", CrbDataBufferSize, 4>> \notin th[t].wrote

\* C37: CrbCommand and TisCommand never write bufferOut at an index at or
\* beyond the capacity the caller passed in *sizeOut, whatever the capacity,
\* capacities below the 10-byte response header included.
C37_WritesWithinCapacity ==
    \A t \in ThreadIds :
        \A k \in th[t].devRead : k < th[t].cap

\* Beyond the capacity only header bytes are written.
C37_WritesWithinCapacityOrHeader ==
    \A t \in ThreadIds :
        \A k \in th[t].devRead : k < th[t].cap \/ k < RespHeaderSize

\* A call with a capacity below the header size wrote bufferOut[9].
C37_HeaderPastCapacity ==
    \E t \in ThreadIds :
        /\ th[t].cap < RespHeaderSize
        /\ (RespHeaderSize - 1) \in th[t].devRead

\* ReadPublic decoded the frame and returned success.
DecodedSuccess(s) == Decoded(s) /\ s.rpStatus = STATUS_SUCCESS
\* Where the decoder's cursor `buffer` started inside recvBuffer.
PublicAreaStart == OutPublicOffset + 2

\* C38: whenever ReadPublic returns success, the bytes consumed by decoding
\* TPMT_PUBLIC (type, nameAlg, objectAttributes, authPolicy, parameters,
\* unique) number exactly outPublicSize, so that no field is read from beyond
\* the end of the outPublic area or beyond the bytes received.
C38_DecodeConsumesPublic ==
    \A t \in ThreadIds :
        LET s == th[t] IN
        DecodedSuccess(s) =>
            /\ s.dec.buf - PublicAreaStart = outPublicSize(s)
            /\ s.dec.buf <= NameOffset(s)
            /\ s.dec.buf <= s.sizeOut

\* On success the decoder's cursor ended inside the bytes received.
C38_WithinReceived ==
    \A t \in ThreadIds :
        DecodedSuccess(th[t]) => th[t].dec.buf <= th[t].sizeOut

\* Success on a frame with bytes after the unique field inside the public
\* area: fewer than outPublicSize bytes were consumed.
C38_LeftOver ==
    \E t \in ThreadIds :
        /\ DecodedSuccess(th[t])
        /\ wire.pad = 2
        /\ th[t].dec.buf - PublicAreaStart = outPublicSize(th[t]) - 2

\* Success on a frame whose public area ends before the unique field: the
\* unique buffer was read from the name that follows the public area.
C38_ReadPastPublicArea ==
    \E t \in ThreadIds :
        /\ DecodedSuccess(th[t])
        /\ wire.unique = <<>>
        /\ th[t].dec.uniqueAt = NameOffset(th[t])
        /\ th[t].dec.buf = NameOffset(th[t]) + 2 + nameSize(th[t])

\* ReadPublic returned, before or after decoding.
ReadPublicReturned(s) == s.pc \in {"rp_done", "rp_decoded"}
ReadPublicFailed(s) == ReadPublicReturned(s) /\ s.rpStatus # STATUS_SUCCESS

\* C39: whenever ReadPublic returns a status other than success, none of
\* *outPublic, *name and *qualifiedName has been modified by the call.
C39_FailureLeavesOutputs ==
    \A t \in ThreadIds :
        ReadPublicFailed(th[t]) => th[t].out = NoOutput

\* A failed call leaves *name and *qualifiedName as they were.
C39_FailureLeavesNames ==
    \A t \in ThreadIds :
        ReadPublicFailed(th[t]) =>
            /\ th[t].out.name = NoBuffer
            /\ th[t].out.qualifiedName = NoBuffer

\* A call that failed up to the "Basic check" leaves *outPublic as it was.
C39_EarlyFailureLeavesOutputs ==
    \A t \in ThreadIds :
        (ReadPublicFailed(th[t]) /\ th[t].dec.copies = {}) => th[t].out = NoOutput

\* A frame with an authPolicy above its maximum was refused after the public
\* area had been copied into *outPublic.
C39_RefusedAfterCopy ==
    \E t \in ThreadIds :
        /\ ReadPublicFailed(th[t])
        /\ th[t].rpStatus = STATUS_DEVICE_BUSY
        /\ wire.auth = sizeof_TPMU_HA + 1
        /\ th[t].out.raw = RecvBytes(th[t], OutPublicOffset, 2 + outPublicSize(th[t]))
        /\ th[t].out.size = outPublicSize(th[t])
        /\ th[t].out.authPolicy.size = sizeof_TPMU_HA + 1

============================================================================
